---- MODULE Spec2Model ----
(***************************************************************************)
(* The DevNetwork platform connector of Malachi: the connect /             *)
(* authenticate / subscribe / listen / reconnect / disconnect state        *)
(* machine of DevNetworkHandler, as driven by BotEngine and by the         *)
(* management API.  Every asyncio task is a process; every `await` that    *)
(* suspends is a point where another task may run.  Further: the rate      *)
(* limiter of PlatformHandler, the handling of inbound DevNetwork frames   *)
(* with its slash commands, the message splitters of the Discord,          *)
(* Telegram and DevNetwork connectors, the outbound sends of the listen    *)
(* task and of BotEngine.send_message, and the path of a conversational    *)
(* DM through BotEngine._handle_message.                                   *)
(***************************************************************************)
EXTENDS Integers, Sequences, FiniteSets, TLC

\* ------------------------------------------------------------------ bounds
\* Spec, every operation against a service that may fail:
\* WebSocket connections that may be opened in one behaviour.  The listen
\* task started by an attempt and the reconnect task that listen task spawns
\* carry the number of the attempt's WebSocket.
MaxConn == 3
\* connect requests that arrive through the management API
MaxApiConnect == 1
\* disconnect requests that arrive through the management API
MaxApiDisconnect == 1
\* failures the remote endpoint may answer with (HTTP error, refused
\* WebSocket, rejected authentication)
MaxFail == 1
\* transport losses and frames whose handling raises
MaxClose == 1
\* approved groups in the bot's profile
MaxGroups == 2
\* RaceSpec, overlapping calls of connect() and no call of disconnect()
\* (ApiSpec takes its WebSockets, API connects and transport losses from
\* here too):
RaceConn == 4
RaceApi == 2
RaceFail == 1
RaceClose == 1
\* LiveSpec and FairSpec, the engine and the reconnect tasks alone:
LiveConn == 3
LiveFail == 6
LiveClose == 2

\* RateSpec, check_rate_limit called for several identities as time passes:
\* identities that send messages
MaxUsers == 2
\* largest configured rate_limit_messages
MaxMessages == 2
\* largest configured rate_limit_window, in seconds
MaxWindow == 3
\* seconds that pass in one behaviour
MaxTime == 5
\* calls of check_rate_limit in one behaviour
MaxCalls == 4
\* MsgSpec, frames handled in one behaviour
MaxFrames == 2
\* MsgSpec, groups that messages arrive from
MsgGroups == 1
\* ChunkSpec, length of the texts that are split
MaxText == 5
\* ChunkSpec, largest max_length
MaxLimit == 3
\* EngSpec, platforms registered with the engine
MaxPlats == 2
\* EngSpec, connect attempts that may fail while the engine runs
EngFail == 6
\* StoreSpec, tasks that handle messages at the same time
MaxTasks == 2
\* StoreSpec, channels
MaxChannels == 2
\* LoopSpec, frames that arrive on the WebSocket
MaxInbound == 3
\* ChatSpec, largest retry_attempts
MaxRetry == 4
\* config.retry_attempts as configured by default
RetryAttempts == 3
\* PipeSpec, DMs handled one after the other
PipeFrames == 2
\* PipeSpec, length of the completion's replies
PipeText == 3
\* PipeSpec, max_len of send_dm
PipeLimit == 2
\* SendSpec, length of the contents that are sent
SendText == 2
\* SendSpec, max_len of send_dm
SendLimit == 1

\* ------------------------------------------------------- program constants
BaseDelay == 5
MaxDelay == 120

\* ---------------------------------------------------------------- identities
Eng == 0
Max(a, b) == IF a > b THEN a ELSE b
PoolSize == Max(MaxConn, Max(RaceConn, LiveConn))
ApiPool == Max(Max(MaxApiConnect, MaxApiDisconnect), RaceApi)
ApiIds == (0 - ApiPool)..(0 - 1)
RecIds == 1..PoolSize
Callers == (0 - ApiPool)..PoolSize
WsIds == 1..PoolSize
SessIds == 1..(ApiPool + 2)
DiscIds == 0..ApiPool
\* the bot profile's approved_groups lists the model draws from
AllGroups == [k \in 1..MaxGroups |-> MaxGroups + 1 - k]
GroupLists == {SubSeq(AllGroups, 1, n) : n \in 0..MaxGroups}

VARIABLES
  lim,             \* what the environment may do in this behaviour (never changes)
  running,         \* DevNetworkHandler._running
  is_connected,    \* PlatformHandler._is_connected
  ws_ref,          \* DevNetworkHandler._ws: 0 is None, else a WebSocket
  session_ref,     \* DevNetworkHandler._session: 0 is None, else a session
  listen_task,     \* DevNetworkHandler._listen_task: 0 is None, else a task
  reconnect_lock,  \* DevNetworkHandler._reconnect_lock is held
  profile,         \* approved_groups of the bot's profile held by the service
  bot_info,        \* approved_groups of DevNetworkHandler._bot_info
  wsock,           \* the WebSocket objects: state and owning session
  sess,            \* the aiohttp sessions
  ltask,           \* the _listen_loop tasks
  caller,          \* the tasks that call connect(): engine, API requests, _reconnect tasks
  conn,            \* the connect() frame of each caller
  disc,            \* the disconnect() frame of each caller of disconnect()
  engine_running,  \* BotEngine._running
  fails,           \* failures answered by the endpoint so far
  closes,          \* transport losses and raising frames so far
  sub_log,         \* group ids the current connect() issued a subscribe request for, in
                   \* order (kept until the listen task it created first runs)
  sub_failed,      \* indexes of approved_groups whose subscription failed (kept likewise)
  after_disc       \* "called": disconnect() was called and connect() was not called
                   \* since; "returned": that disconnect() has returned as well

\* the connection state machine's variables
connvars == <<lim, running, is_connected, ws_ref, session_ref, listen_task, reconnect_lock,
              profile, bot_info, wsock, sess, ltask, caller, conn, disc, engine_running,
              fails, closes, sub_log, sub_failed, after_disc>>

VARIABLES
  now,             \* time.time(), in whole seconds since the handler was created
  rl_cfg,          \* config.rate_limit_messages and config.rate_limit_window (never change)
  rate_limits,     \* PlatformHandler._rate_limits: identity -> message_times
  admitted,        \* per identity, the times of all calls that returned True so far
  rl_call          \* the last check_rate_limit call: its number, identity and result

\* the rate limiter's variables
ratevars == <<now, rl_cfg, rate_limits, admitted, rl_call>>

VARIABLES
  cfg,             \* DevNetworkConfig flags and the operator id of _bot_info (never change)
  ev               \* the last inbound frame and what its handling did

\* the frame handlers' variables
msgvars == <<cfg, ev>>

VARIABLES
  ch_text,         \* the text given to _chunk_message and to send_dm
  ch_limit,        \* max_length (max_len in send_dm)
  ch_ran,          \* the functions that were called on the text
  ch_out,          \* per function, the chunks it returned or transmitted so far
  ch_todo          \* the chunks send_dm has still to transmit

\* the message splitters' variables
chunkvars == <<ch_text, ch_limit, ch_ran, ch_out, ch_todo>>

VARIABLES
  snd,             \* per sending task, the frame of its send call
  wire             \* the POST requests made for messages, in order

\* the outbound sends' variables
sendvars == <<snd, wire>>

VARIABLES
  pipe,            \* the frame of _handle_dm / BotEngine._handle_message
  plog,            \* the calls made for the current DM, in order
  hist,            \* per channel, the rows of the messages table
  stats            \* BotEngine._messages_processed and _last_message_at

\* the conversational pipeline's variables
pipevars == <<pipe, plog, hist, stats>>

VARIABLES
  chat             \* the frame of a call of AiAssistClient.chat

VARIABLES
  plat,            \* per platform, its _connect_platform task and its handler
  eng              \* BotEngine: the running flag and the frame of stop()

\* the engine's variables
engvars == <<plat, eng>>

VARIABLES
  convs,           \* the rows of the conversations table
  goc              \* the frames of the get_or_create_conversation calls

\* the store's variables
storevars == <<convs, goc>>

VARIABLES
  lsn              \* one listen task: the frames waiting on its WebSocket, the
                   \* handlers it has started, the replies written

\* the listen loop's variables
loopvars == <<lsn>>

VARIABLES
  cut              \* one run of _chunk_message on ch_text, iteration by iteration

\* the variables of the run of the splitting loop
cutvars == <<cut>>

\* the variables of the completion client, of the engine, of the store, of
\* the listen loop and of the splitting loop
extvars == <<chat, engvars, storevars, loopvars, cutvars>>

\* the variables the connection state machine never touches
othervars == <<ratevars, msgvars, chunkvars, sendvars, pipevars, extvars>>

vars == <<connvars, othervars>>

Min(a, b) == IF a < b THEN a ELSE b

IdleCaller == [pc |-> "none", delay |-> 0, attempt |-> 0, stale |-> 0, res |-> "none"]
IdleConn == [pc |-> "none", w |-> 0, own |-> 0, s |-> 0, i |-> 0]
NoWs == [st |-> "free", s |-> 0]
NoTask == [pc |-> "none", w |-> 0]

\* State after DevNetworkHandler.__init__ and BotEngine.start(): the engine's
\* _connect_platform task is created and has not run yet.
Started ==
  /\ running = FALSE
  /\ is_connected = FALSE
  /\ ws_ref = 0
  /\ session_ref = 0
  /\ listen_task = 0
  /\ reconnect_lock = FALSE
  /\ bot_info = << >>
  /\ wsock = [w \in WsIds |-> NoWs]
  /\ sess = [s \in SessIds |-> "free"]
  /\ ltask = [t \in WsIds |-> NoTask]
  /\ caller = [c \in Callers |->
                 IF c = Eng THEN [IdleCaller EXCEPT !.pc = "start", !.delay = BaseDelay]
                 ELSE IF c \in ApiIds THEN [IdleCaller EXCEPT !.pc = "idle"]
                 ELSE IdleCaller]
  /\ conn = [c \in Callers |-> IdleConn]
  /\ disc = [d \in DiscIds |-> "idle"]
  /\ engine_running = TRUE
  /\ fails = 0
  /\ closes = 0
  /\ sub_log = << >>
  /\ sub_failed = {}
  /\ after_disc = "no"

\* ------------------------------------------------------- check_rate_limit()
\* the identities that send messages
Users == 1..MaxUsers
\* the values of a frame's sender_id: 0 is None (the frame has no sender_id)
Identities == 0..MaxUsers

NoCall == [n |-> 0, user |-> 0, res |-> FALSE]

\* State after PlatformHandler.__init__: no identity has a window yet.
RateIdle ==
  /\ now = 0
  /\ rate_limits = << >>
  /\ admitted = [u \in Identities |-> << >>]
  /\ rl_call = NoCall

\* Line 70: self._rate_limits is a defaultdict; reading a missing identity
\* yields a fresh RateLimitState with an empty list.
Window(u) == IF u \in DOMAIN rate_limits THEN rate_limits[u] ELSE << >>

\* variant of line 74: a timestamp exactly window_seconds old is kept
Pruned_Inclusive(u) == SelectSeq(Window(u), LAMBDA t : now - t <= rl_cfg.window)

\* Lines 72-75: the timestamps younger than the window, in their order
Pruned(u) == SelectSeq(Window(u), LAMBDA t : now - t < rl_cfg.window)

\* Line 77, negated: the call is admitted
Admits(u) == ~(Len(Pruned(u)) >= rl_cfg.max)

\* variant of lines 77-80: the timestamp is appended before the length test
Recorded_OnDenial(u) == Append(Pruned(u), now)

\* Lines 72-81: the list the call leaves in the identity's state
Recorded(u) == IF Admits(u) THEN Append(Pruned(u), now) ELSE Pruned(u)

\* variant of line 70: one state is shared by all identities
Key_Shared(u) == 1

\* Line 70: the key of the identity's state in _rate_limits
Key(u) == u

\* Lines 58-81: check_rate_limit(u, rl_cfg.max, rl_cfg.window) at time now.
\* The function awaits nothing, so a call is one step of the event loop.
check_rate_limit(u) ==
  /\ rate_limits' = [k \in DOMAIN rate_limits \cup {Key(u)} |->
                       IF k = Key(u) THEN Recorded(Key(u)) ELSE rate_limits[k]]
  /\ admitted' = IF Admits(Key(u)) THEN [admitted EXCEPT ![u] = Append(@, now)] ELSE admitted
  /\ rl_call' = [n |-> rl_call.n + 1, user |-> u, res |-> Admits(Key(u))]

\* ------------------------------------------------------------------- texts
\* A text is a sequence of atoms: the character "/", a blank, or a run of
\* other characters, which is written in lower case or not.
Slash == [ch |-> "/", up |-> FALSE]
Space == [ch |-> " ", up |-> FALSE]
Word(w, up) == [ch |-> w, up |-> up]

\* str.lower()
Lower(t) == [i \in DOMAIN t |-> [t[i] EXCEPT !.up = FALSE]]

\* str.startswith("/")
StartsWithSlash(t) == Len(t) > 0 /\ t[1] = Slash

RECURSIVE LStrip(_)
LStrip(t) == IF Len(t) > 0 /\ t[1] = Space THEN LStrip(Tail(t)) ELSE t

RECURSIVE RStrip(_)
RStrip(t) == IF Len(t) > 0 /\ t[Len(t)] = Space THEN RStrip(SubSeq(t, 1, Len(t) - 1)) ELSE t

\* str.strip()
Strip(t) == RStrip(LStrip(t))

\* index of the first blank of t, Len(t) + 1 if it has none
FirstSpace(t) ==
  IF \E i \in DOMAIN t : t[i] = Space
    THEN CHOOSE i \in DOMAIN t : t[i] = Space /\ \A j \in 1..(i - 1) : t[j] # Space
    ELSE Len(t) + 1

\* str.split(maxsplit=1): leading blanks are skipped, the first token ends at
\* the first run of blanks, the rest keeps its trailing blanks
Split1(t) ==
  LET s == LStrip(t)
      k == FirstSpace(s)
      rest == LStrip(SubSeq(s, k, Len(s)))
  IN  IF s = << >> THEN << >>
      ELSE IF rest = << >> THEN <<SubSeq(s, 1, k - 1)>>
      ELSE <<SubSeq(s, 1, k - 1), rest>>

\* str.replace(atom, "")
Remove(t, atom) == SelectSeq(t, LAMBDA x : x # atom)

\* atom in str
Contains(t, atom) == \E i \in DOMAIN t : t[i] = atom

\* ------------------------------------------------- _handle_dm() and friends
\* _bot_info["id"]
BotId == MaxUsers + 1
\* "@" + _bot_info["username"].lower() and "@" + _bot_info["displayName"].lower()
MentionAtom == Word("@bot", FALSE)
DisplayAtom == Word("@display", FALSE)

\* the command names _handle_command compares with
CommandNames == {"help", "info", "clear", "imagine", "review", "deepsearch", "groups", "knock"}
Cmd(name) == <<Slash, Word(name, FALSE)>>

\* the inbound frames the model draws from: sender_id (0: absent, BotId: the
\* bot itself), group_id and content
Plain(w, up) == {sl \o <<Word(w, up)>> \o ar :
                   sl \in {<< >>, <<Slash>>}, ar \in {<< >>, <<Space, Word("x", FALSE)>>}}
Bodies ==
  UNION {Plain(w, FALSE) :
           w \in {"help", "clear", "imagine", "review", "groups", "knock", "foo"}}
    \cup Plain("clear", TRUE) \cup Plain("knock", TRUE)
\* group messages mention the bot as its username is stored; a few mention
\* it in another letter case or not at all
GroupBodies ==
  {<<MentionAtom, Space>> \o b : b \in Bodies}
    \cup {m \o b : m \in {<< >>, <<Word("@bot", TRUE), Space>>},
                   b \in {Cmd("clear"), <<Word("foo", FALSE)>>}}
DmFrames ==
  [type : {"dm"}, sender : Identities, group : {0}, content : Bodies]
    \cup [type : {"dm"}, sender : {BotId}, group : {0}, content : {<<Word("foo", FALSE)>>}]
GroupFrames ==
  [type : {"group_message"}, sender : Identities, group : 1..MsgGroups, content : GroupBodies]
    \cup [type : {"group_message"}, sender : {BotId}, group : 1..MsgGroups,
          content : {<<MentionAtom, Space, Word("foo", FALSE)>>}]

\* what the environment answers while one frame is handled: the callback
\* that is awaited returns a text, returns nothing or raises; the discovery
\* request finds a group of some status, finds none, is answered with an
\* error status or raises (a transport error, a timeout); the application
\* is accepted, refused or raises; the message sent to the group is
\* accepted (200, 201), rejected with 403 or with another status, or the
\* request raises aiohttp.ClientError
Env(cb, found, app, send) == [cb |-> cb, disc |-> found, app |-> app, send |-> send]
Envs == {Env("text", "available", "ok", "ok"), Env("text", "status", "ok", "403"),
         Env("empty", "available", "ok", "ok"), Env("raise", "available", "ok", "ok")}
\* the same, one answer varied at a time
NetEnvs ==
  {Env(cb, "available", "ok", "ok") : cb \in {"text", "empty", "raise"}}
    \cup {Env("text", d, "ok", "ok") : d \in {"approved", "pending", "empty", "status", "raise"}}
    \cup {Env("text", "available", a, "ok") : a \in {"fail", "raise"}}
    \cup {Env("text", "available", "ok", sd) : sd \in {"403", "status", "error"}}

NoEvent == [n |-> 0, type |-> "none", kind |-> "none", sender |-> 0, group |-> 0, text |-> << >>,
            rl |-> "skipped", msg_cb |-> << >>, clear_cb |-> << >>, sent |-> << >>,
            discover |-> 0, apply |-> 0, raised |-> FALSE, found |-> "none",
            applied |-> "none", send_res |-> "none", pong |-> 0]

\* State after DevNetworkHandler.__init__: no frame was handled.
MsgIdle == ev = NoEvent

\* a channel id is a string: an id, with the prefix "dm:" or without
\* f"dm:{user_id}"
DmChannel(user) == [prefix |-> "dm:", id |-> user]
\* group_id
GroupChannel(group) == [prefix |-> "", id |-> group]

\* variant of line 334: the group id is passed whatever the kind of message
ClearChannel_GroupOnly(user, is_dm, group) == GroupChannel(group)

\* Line 334: channel_id = f"dm:{user_id}" if is_dm else group_id
ClearChannel(user, is_dm, group) == IF is_dm THEN DmChannel(user) ELSE GroupChannel(group)

\* Lines 357, 364: the operator id of the bot identity, 0 when it has none
OperatorId == cfg.operator

\* what _handle_command did: its return value (a kind of text, or "None"),
\* the channels the clear callback was called with, the discovery requests
\* and the applications it issued, and whether it raised
NoEffect == [resp |-> "None", clear |-> << >>, discover |-> 0, apply |-> 0, raised |-> FALSE,
             found |-> "none", applied |-> "none"]

Returned(kind) == [NoEffect EXCEPT !.resp = kind]
Raised == [NoEffect EXCEPT !.raised = TRUE]

\* Lines 347-354: the review and deepsearch callbacks' result is returned
CallbackText(e) ==
  IF e.cb = "raise" THEN Raised
  ELSE IF e.cb = "text" THEN Returned("callback") ELSE NoEffect

\* Lines 371-411: the text _handle_groups_command returns
GroupsText(found) ==
  IF found = "raise" THEN "groups_error"
  ELSE IF found = "status" THEN "groups_failed"
  ELSE IF found = "empty" THEN "no_groups"
  ELSE "groups"

\* variant of lines 445-449: the result of apply_to_group is not read
KnockText_Unchecked(found, app) ==
  IF found = "raise" THEN "knock_error"
  ELSE IF found = "status" THEN "search_failed"
  ELSE IF found = "empty" THEN "no_match"
  ELSE IF found = "approved" THEN "already_approved"
  ELSE IF found = "pending" THEN "already_pending"
  ELSE IF app = "raise" THEN "knock_error"
  ELSE "knocked"

\* Lines 414-452: the text _handle_knock_command returns
KnockText(found, app) ==
  IF found = "raise" THEN "knock_error"
  ELSE IF found = "status" THEN "search_failed"
  ELSE IF found = "empty" THEN "no_match"
  ELSE IF found = "approved" THEN "already_approved"
  ELSE IF found = "pending" THEN "already_pending"
  ELSE IF app = "raise" THEN "knock_error"
  ELSE IF app = "ok" THEN "knocked"
  ELSE "apply_failed"

\* Lines 314-369: _handle_command(content, user_id, is_dm, group_id).  The
\* engine has registered every callback (engine.py 72-79).
handle_command(content, user, is_dm, group, e) ==
  LET parts == Split1(content)
      command == Lower(parts[1])
      args == IF Len(parts) > 1 THEN parts[2] ELSE << >>
  IN  IF command = Cmd("help") THEN Returned("help")
      ELSE IF command = Cmd("info") THEN Returned("info")
      ELSE IF command = Cmd("clear") THEN
        [(IF e.cb = "raise" THEN Raised ELSE Returned("cleared"))
           EXCEPT !.clear = <<ClearChannel(user, is_dm, group)>>]
      ELSE IF command = Cmd("imagine") /\ args # << >> THEN
        (IF e.cb = "raise" THEN Raised
         ELSE IF e.cb = "text" THEN Returned("image") ELSE Returned("imagine_failed"))
      ELSE IF command = Cmd("review") /\ args # << >> THEN CallbackText(e)
      ELSE IF command = Cmd("deepsearch") /\ args # << >> THEN CallbackText(e)
      ELSE IF command = Cmd("groups") THEN
        (IF user # OperatorId THEN Returned("refusal")
         ELSE [Returned(GroupsText(e.disc)) EXCEPT !.discover = 1, !.found = e.disc])
      ELSE IF command = Cmd("knock") /\ args # << >> THEN
        (IF user # OperatorId THEN Returned("refusal")
         ELSE [Returned(KnockText(e.disc, e.app))
                 EXCEPT !.discover = 1, !.found = e.disc,
                        !.apply = IF e.disc = "available" THEN 1 ELSE 0,
                        !.applied = IF e.disc = "available" THEN e.app ELSE "none"])
      ELSE NoEffect

\* variant of lines 182-194: a frame of another type is handled as a DM
Route_Lenient(type) ==
  IF type = "group_message" THEN "group"
  ELSE IF type = "ping" THEN "pong"
  ELSE "dm"

\* variant of lines 207, 269: no frame is taken for the bot's own
IsSelf_Never(sender) == FALSE

\* Lines 207, 269: sender_id == self._bot_info["id"]
IsSelf(sender) == sender = BotId

\* variant of lines 211-217, 280-285: the limiter's answer is not read
Gate_Open(ok, routed, denied) == routed

\* Lines 211-217, 280-285: `if not self.check_rate_limit(...): return`
Gate(ok, routed, denied) == IF ok THEN routed ELSE denied

\* Lines 182-194: where _handle_ws_message sends a frame of the given type
Route(type) ==
  IF type = "dm" THEN "dm"
  ELSE IF type = "group_message" THEN "group"
  ELSE IF type = "feed_post" THEN "ignored"
  ELSE IF type = "ping" THEN "pong"
  ELSE "ignored"

\* the record of a frame whose handling returned before or at the rate
\* limiter: nothing was done with its content
Skipped(kind, f) ==
  [NoEvent EXCEPT !.n = ev.n + 1, !.type = f.type, !.kind = kind, !.sender = f.sender]

\* the record of a frame that passed the rate limiter and whose text is routed
Admitted(kind, f, text) ==
  [Skipped(kind, f) EXCEPT !.rl = "admitted", !.group = f.group, !.text = text]

\* a message passed to send_dm (dm TRUE) or send_group_message
Sent(dm, to, text) == [dm |-> dm, to |-> to, text |-> text]

\* what handling a command did, with its response sent when it has one
\* (lines 231-235 and 290-293)
Commanded(b, r, dm, to) ==
  [b EXCEPT !.clear_cb = r.clear, !.discover = r.discover, !.apply = r.apply,
            !.raised = r.raised, !.found = r.found, !.applied = r.applied,
            !.sent = IF r.resp # "None" THEN <<Sent(dm, to, r.resp)>> ELSE << >>]

\* Lines 219-258: a DM that passed the rate limiter
DmAdmitted(f, e) ==
  LET b == Admitted("dm", f, f.content)
      parts == Split1(f.content)
      command == Lower(parts[1])
      args == IF Len(parts) > 1 THEN parts[2] ELSE << >>
  IN  IF StartsWithSlash(f.content)
        THEN IF command = Cmd("imagine") /\ args # << >>
               THEN (IF e.cb = "raise" THEN [b EXCEPT !.raised = TRUE]
                     ELSE IF e.cb = "text"
                       THEN [b EXCEPT !.sent = <<Sent(TRUE, f.sender, "image")>>]
                       ELSE [b EXCEPT !.sent = <<Sent(TRUE, f.sender, "imagine_failed")>>])
               ELSE Commanded(b, handle_command(f.content, f.sender, TRUE, 0, e),
                              TRUE, f.sender)
        ELSE [b EXCEPT !.msg_cb = <<[channel |-> DmChannel(f.sender), text |-> f.content]>>,
                       !.sent = IF e.cb = "text"
                                  THEN <<Sent(TRUE, f.sender, "reply")>> ELSE << >>]

\* Lines 272-275: the message mentions the bot
IsMention(content) == Contains(Lower(content), MentionAtom)

\* Line 287
ContentClean(content) == Strip(Remove(Remove(content, MentionAtom), DisplayAtom))

\* Lines 308-310, 552-572: send_group_message returns False for a 403, for
\* another status and for aiohttp.ClientError; `if not success` applies
AutoApply(res) == res # "ok"

\* Lines 287-312: a group message that passed the rate limiter
GroupAdmitted(f, e) ==
  LET clean == ContentClean(f.content)
      b == Admitted("group", f, clean)
  IN  IF StartsWithSlash(clean)
        THEN Commanded(b, handle_command(clean, f.sender, FALSE, f.group, e),
                       FALSE, f.group)
        ELSE [b EXCEPT !.msg_cb = <<[channel |-> GroupChannel(f.group), text |-> clean]>>,
                       !.raised = (e.cb = "raise"),
                       !.sent = IF e.cb = "text"
                                  THEN <<Sent(FALSE, f.group, "reply")>> ELSE << >>,
                       !.send_res = IF e.cb = "text" THEN e.send ELSE "none",
                       !.apply = IF e.cb = "text" /\ AutoApply(e.send) THEN 1 ELSE 0]

\* ------------------------------------------- _chunk_message() and send_dm()
\* A text to split is a sequence of characters: a letter, a blank, a newline.
Chars == {"a", " ", "\n"}
Whitespace == {" ", "\n"}

\* str.lstrip()
RECURSIVE LStripWs(_)
LStripWs(t) == IF Len(t) > 0 /\ t[1] \in Whitespace THEN LStripWs(Tail(t)) ELSE t

\* text.rfind(c, 0, hi): the last position of c among the first hi
\* characters, counted from 0, or -1
RFind(t, c, hi) ==
  LET at == {i \in 1..Min(hi, Len(t)) : t[i] = c}
  IN  IF at = {} THEN 0 - 1 ELSE (CHOOSE i \in at : \A j \in at : j <= i) - 1

\* variant of discord.py 318-324: a text without newline or blank is cut one
\* character later
SplitAt_CutLate(t, m) ==
  IF RFind(t, "\n", m) # 0 - 1 THEN RFind(t, "\n", m)
  ELSE IF RFind(t, " ", m) # 0 - 1 THEN RFind(t, " ", m)
  ELSE m + 1

\* discord.py 318-324 (telegram.py 519-523): split_at
SplitAt(t, m) ==
  IF RFind(t, "\n", m) # 0 - 1 THEN RFind(t, "\n", m)
  ELSE IF RFind(t, " ", m) # 0 - 1 THEN RFind(t, " ", m)
  ELSE m

\* discord.py 312-327 (telegram.py 513-525): the while loop, chunks so far acc
RECURSIVE ChunkLoop(_, _, _)
ChunkLoop(t, m, acc) ==
  IF t = << >> THEN acc
  ELSE IF Len(t) <= m THEN Append(acc, t)
  ELSE ChunkLoop(LStripWs(SubSeq(t, SplitAt(t, m) + 1, Len(t))), m,
                 Append(acc, SubSeq(t, 1, SplitAt(t, m))))

\* variant of discord.py 308-309: the loop is entered whatever the length
chunk_message_NoShortcut(t, m) == ChunkLoop(t, m, << >>)

\* discord.py 306-329: DiscordHandler._chunk_message(text, max_length);
\* telegram.py 507-527 is the same function
chunk_message(t, m) == IF Len(t) <= m THEN <<t>> ELSE ChunkLoop(t, m, << >>)

\* content.split("\n"), the line being read in cur
RECURSIVE SplitLines(_, _)
SplitLines(t, cur) ==
  IF t = << >> THEN <<cur>>
  ELSE IF t[1] = "\n" THEN <<cur>> \o SplitLines(Tail(t), << >>)
  ELSE SplitLines(Tail(t), Append(cur, t[1]))

\* devnetwork.py 518-519: [line[i:i + max_len] for i in range(0, len(line), max_len)]
RECURSIVE HardCut(_, _)
HardCut(line, m) ==
  IF line = << >> THEN << >>
  ELSE <<SubSeq(line, 1, Min(m, Len(line)))>> \o HardCut(SubSeq(line, m + 1, Len(line)), m)

\* devnetwork.py 513-526: the for loop over the lines and the last flush
RECURSIVE DmLoop(_, _, _, _)
DmLoop(lines, m, current, chunks) ==
  IF lines = << >>
    THEN IF current # << >> THEN Append(chunks, current) ELSE chunks
  ELSE LET line == lines[1]
           flushed == IF current # << >> THEN Append(chunks, current) ELSE chunks
       IN  IF Len(current) + Len(line) + 1 > m
             THEN IF Len(line) > m
                    THEN DmLoop(Tail(lines), m, << >>, flushed \o HardCut(line, m))
                    ELSE DmLoop(Tail(lines), m, line, flushed)
             ELSE DmLoop(Tail(lines), m,
                         IF current # << >> THEN current \o <<"\n">> \o line ELSE line,
                         chunks)

\* devnetwork.py 501-530: the chunks send_dm(user_id, content) transmits for a
\* content without image.  max_len is 1900 in the code; the same statements
\* are run here for small limits, so that contents longer than the limit
\* can be enumerated.
send_dm_chunks(content, m) ==
  IF Len(content) <= m THEN <<content>>
  ELSE DmLoop(SplitLines(content, << >>), m, << >>, << >>)

NotRun == [discord |-> << >>, telegram |-> << >>, dm |-> << >>]

\* no function was called yet on the text
ChunkIdle == ch_ran = {} /\ ch_out = NotRun /\ ch_todo = << >>

\* ------------------------------------------- send_message() and send_dm()
\* the tasks that send: the listen task replying to a frame, and a request
\* of the management API that calls BotEngine.send_message
Senders == {"listen", "api"}

NoSend == [pc |-> "idle", kind |-> "none", todo |-> << >>, res |-> "none"]

\* no send was called
SendIdle == snd = [t \in Senders |-> NoSend] /\ wire = << >>

\* devnetwork.py 493-499: send_message routes on the channel id; a DM is
\* chunked by send_dm, a group message is posted whole (lines 552-558)
Requests(kind, content) ==
  IF kind = "dm" THEN send_dm_chunks(content, SendLimit) ELSE <<content>>

\* a send call starts: the requests it will make are fixed
StartSend(t, kind, content) ==
  snd' = [snd EXCEPT ![t] = [pc |-> IF Requests(kind, content) = << >> THEN "done" ELSE "sending",
                             kind |-> kind,
                             todo |-> Requests(kind, content),
                             res |-> IF Requests(kind, content) # << >> THEN "none"
                                     ELSE IF t = "api" THEN "True" ELSE "None"]]

\* devnetwork.py 493-499, 501-530 return None; engine.py 370-372: True once
\* handler.send_message has returned
SendResult(t, failed) == IF t = "api" THEN "True" ELSE "None"

\* the outcomes of one POST: accepted (200, 201), rejected (another status),
\* aiohttp.ClientError, or another exception
Outcomes == {"ok", "rejected", "error", "fault"}

\* ------------------------------------ _handle_dm() and _handle_message()
\* engine.py 157: the text returned when the completion or the storing of
\* its reply raised
Apology == <<"a", " ">>

NoPipe == [pc |-> "idle", n |-> 0, sender |-> 0, channel |-> DmChannel(0), is_dm |-> FALSE,
           conv |-> DmChannel(0), reply |-> << >>, from |-> "none", todo |-> << >>]

\* no DM was handled, the tables are empty
PipeIdle ==
  /\ pipe = NoPipe
  /\ plog = << >>
  /\ hist = [u \in Users |-> << >>]
  /\ stats = [processed |-> 0, last_at |-> 0]

\* one call of the pipeline
Call(step, text, to) == [step |-> step, text |-> text, to |-> to]

\* variant of engine.py 155-157: the exception leaves _handle_message
ChatFailed_Raises(p) == [p EXCEPT !.pc = "done"]

\* engine.py 155-157: the exception is logged and the apology returned
ChatFailed(p) == [p EXCEPT !.pc = "returned", !.reply = Apology, !.from = "apology"]

\* engine.py 151-152: _messages_processed += 1; _last_message_at is the
\* time of the message, here its number
Counted(st, n) == [processed |-> st.processed + 1, last_at |-> n]

\* devnetwork.py 253-254, 501-526: `if response:` then send_dm's chunks
ReplyChunks(response) ==
  IF response = << >> THEN << >> ELSE send_dm_chunks(response, PipeLimit)

\* ------------------------------------------------- AiAssistClient.chat()
\* chat() was not called; n is config.retry_attempts
NoChat(n) == [pc |-> "idle", n |-> n, attempt |-> 0, log |-> << >>]

ChatIdle == chat = NoChat(RetryAttempts)

\* ------------------------------------ BotEngine.start() and stop()
Plats == 1..MaxPlats

\* engine.py 81-83: the platform's task is created; its handler is new
NewPlat == [pc |-> "created", delay |-> BaseDelay, attempt |-> 0, slept |-> << >>,
            connected |-> FALSE, listen |-> FALSE, open |-> FALSE, cut |-> FALSE]

\* State after BotEngine.start(): every task created, none has run, the
\* running flag set (engine.py 81-86)
EngIdle ==
  /\ plat = [p \in Plats |-> NewPlat]
  /\ eng = [running |-> TRUE, stop |-> "no", i |-> 0, called |-> {}, raised |-> {},
            fails |-> 0]

\* ------------------------------------- get_or_create_conversation()
\* the tasks that handle a message at the same time
Tasks == 1..MaxTasks
\* the channels, (platform, channel_id) pairs
Channels == 1..MaxChannels

NoGoc == [pc |-> "idle", channel |-> 0, row |-> 0, id |-> 0]

\* State after MemoryManager.connect(): the table is empty
StoreIdle ==
  /\ convs = << >>
  /\ goc = [t \in Tasks |-> NoGoc]

\* ------------------------------------------------- _listen_loop, frames
\* devnetwork.py 117, 125-127: the listen task awaits its first frame
LoopIdle ==
  lsn = [pc |-> "recv", queue |-> << >>, seen |-> 0, got |-> 0, hs |-> {}, out |-> << >>,
         held |-> {}]

\* ------------------------------------------ _chunk_message, step by step
\* _chunk_message was not called
CutIdle == cut = [pc |-> "idle", text |-> << >>, chunks |-> << >>, n |-> 0]

\* the completion client, the engine, the store, the listen loop and the
\* splitting loop are not in use
ExtIdle == ChatIdle /\ EngIdle /\ StoreIdle /\ LoopIdle /\ CutIdle

\* the answers to one POST: a 200, a 429 or an error text that names a rate
\* limit, a status >= 500, another error status, aiohttp.ClientError, or
\* another exception (asyncio.TimeoutError, a malformed body)
Answers == {"200", "429", "5xx", "4xx", "transport", "other"}

\* variant of aiassist.py 79-105: every error status is retried
AfterAnswer_RetryAny(o, attempt, n) ==
  IF o = "200" THEN "return"
  ELSE IF o \in {"429", "5xx", "4xx"} THEN "sleep"
  ELSE IF o = "transport" THEN (IF attempt = n - 1 THEN "raise" ELSE "sleep")
  ELSE "raise"

\* aiassist.py 79-105: what the body of the loop does with the answer of
\* attempt number `attempt` (from 0)
AfterAnswer(o, attempt, n) ==
  IF o = "200" THEN "return"
  ELSE IF o = "429" THEN "sleep"
  ELSE IF o = "5xx" THEN "sleep"
  ELSE IF o = "4xx" THEN "raise"
  ELSE IF o = "transport" THEN (IF attempt = n - 1 THEN "raise" ELSE "sleep")
  ELSE "raise"

\* the state of everything but the connection state machine while only the
\* connection state machine runs
OthersIdle ==
  /\ rl_cfg = [max |-> 1, window |-> 1]
  /\ RateIdle
  /\ cfg = [respond_to_dms |-> TRUE, respond_to_groups |-> TRUE, require_mention |-> TRUE,
            operator |-> 1]
  /\ MsgIdle
  /\ ch_text = << >> /\ ch_limit = 1
  /\ ChunkIdle
  /\ SendIdle
  /\ PipeIdle
  /\ ExtIdle

Init ==
  /\ lim = [conn |-> MaxConn, api |-> MaxApiConnect, disc |-> MaxApiDisconnect, stop |-> TRUE,
            fail |-> MaxFail, close |-> MaxClose]
  /\ profile \in GroupLists
  /\ Started
  /\ OthersIdle


\* ------------------------------------------------------------ connect()
\* variant of line 56: the recorded listen task is left running
NeedsCancel_Never == FALSE
\* line 56: the recorded listen task exists and is not done
NeedsCancel == listen_task # 0 /\ ltask[listen_task].pc \notin {"none", "done"}
\* variant of line 64: the old WebSocket is closed only while the handler is
\* flagged connected
NeedsWsClose_IfConnected == is_connected /\ ws_ref # 0 /\ wsock[ws_ref].st # "closed"
\* line 64: self._ws and not self._ws.closed
NeedsWsClose == ws_ref # 0 /\ wsock[ws_ref].st # "closed"
\* line 67: not self._session or self._session.closed
NeedsSession == session_ref = 0 \/ sess[session_ref] = "closed"
FreeSess == CHOOSE s \in SessIds : sess[s] = "free" /\ \A x \in SessIds : sess[x] = "free" => s <= x
FreeWs == CHOOSE w \in WsIds : wsock[w].st = "free" /\ \A x \in WsIds : wsock[x].st = "free" => w <= x

\* Lines 55-74, from the acquisition of _reconnect_lock to the next await
\* that suspends.  phase 1: the lock was just acquired; 2: the cancelled
\* listen task has been awaited; 3: the close of the old WebSocket has been
\* awaited.
Prologue(c, phase) ==
  /\ reconnect_lock' = TRUE
  /\ IF phase = 1 /\ NeedsCancel THEN
       /\ ltask' = [ltask EXCEPT ![listen_task].pc = "done"]
       /\ conn' = [conn EXCEPT ![c] = [IdleConn EXCEPT !.pc = "cancel_wait"]]
       /\ UNCHANGED <<listen_task, wsock, sess, session_ref>>
     ELSE IF phase <= 2 /\ NeedsWsClose THEN
       /\ wsock' = [wsock EXCEPT ![ws_ref].st = "closed"]
       /\ conn' = [conn EXCEPT ![c] = [IdleConn EXCEPT !.pc = "ws_close"]]
       /\ listen_task' = IF phase = 2 THEN 0 ELSE listen_task
       /\ UNCHANGED <<ltask, sess, session_ref>>
     ELSE
       /\ listen_task' = IF phase = 2 THEN 0 ELSE listen_task
       /\ IF NeedsSession
            THEN /\ \E s \in SessIds : sess[s] = "free"
                 /\ sess' = [sess EXCEPT ![FreeSess] = "open"]
                 /\ session_ref' = FreeSess
            ELSE UNCHANGED <<sess, session_ref>>
       /\ conn' = [conn EXCEPT ![c] = [IdleConn EXCEPT !.pc = "get", !.s = session_ref']]
       /\ UNCHANGED <<ltask, wsock>>

\* asyncio.Lock: free and nobody queued for it
LockFree == ~reconnect_lock /\ \A x \in Callers : conn[x].pc # "lock"

\* A call of connect(), line 55: the lock is taken at once when it is free,
\* else the caller queues for it.
Enter(c) ==
  /\ after_disc' = "no"
  /\ IF LockFree
       THEN Prologue(c, 1)
       ELSE /\ conn' = [conn EXCEPT ![c] = [IdleConn EXCEPT !.pc = "lock"]]
            /\ UNCHANGED <<reconnect_lock, ltask, listen_task, wsock, sess, session_ref>>

\* variant of line 180: the doubled delay is not capped
NextDelay_NoCap(d) == d * 2
\* _reconnect line 180, _connect_platform line 104
NextDelay(d) == Min(d * 2, MaxDelay)

\* variant of lines 178-180: a reconnect task gives up when connect() raises
AfterConnect_GiveUp(c, ok) ==
  IF c = Eng THEN
    IF ok THEN [IdleCaller EXCEPT !.pc = "done", !.res = "ok"]
    ELSE [caller[c] EXCEPT !.pc = "sleep", !.res = "err"]
  ELSE IF c \in ApiIds THEN
    [IdleCaller EXCEPT !.pc = "done", !.res = IF ok THEN "ok" ELSE "err"]
  ELSE IF ok THEN
    [IdleCaller EXCEPT !.pc = "done", !.res = "ok", !.stale = caller[c].stale]
  ELSE [IdleCaller EXCEPT !.pc = "done", !.res = "err", !.stale = caller[c].stale]

\* What the caller does when connect() returns (ok) or raises (~ok):
\* _connect_platform lines 96-103, connect_platform (API) lines 116-120,
\* _reconnect lines 166-180.
AfterConnect(c, ok) ==
  IF c = Eng THEN
    IF ok THEN [IdleCaller EXCEPT !.pc = "done", !.res = "ok"]
    ELSE [caller[c] EXCEPT !.pc = "sleep", !.res = "err"]
  ELSE IF c \in ApiIds THEN
    [IdleCaller EXCEPT !.pc = "done", !.res = IF ok THEN "ok" ELSE "err"]
  ELSE IF ok THEN
    [IdleCaller EXCEPT !.pc = "done", !.res = "ok", !.stale = caller[c].stale]
  ELSE IF running THEN
    [caller[c] EXCEPT !.pc = "sleep", !.delay = NextDelay(@), !.attempt = @ + 1, !.res = "err"]
  ELSE [IdleCaller EXCEPT !.pc = "done", !.res = "err", !.stale = caller[c].stale]

\* connect() raises: the lock is released by `async with`, nothing else is undone
\* (lines 119-121).
Fail(c) ==
  /\ reconnect_lock' = FALSE
  /\ conn' = [conn EXCEPT ![c] = IdleConn]
  /\ caller' = [caller EXCEPT ![c] = AfterConnect(c, FALSE)]

\* Line 117 and the return: the listen task is created and recorded.
Finish(c, own) ==
  /\ reconnect_lock' = FALSE
  /\ conn' = [conn EXCEPT ![c] = IdleConn]
  /\ listen_task' = own
  /\ ltask' = [ltask EXCEPT ![own] = [pc |-> "ready", w |-> 0]]
  /\ caller' = [caller EXCEPT ![c] = AfterConnect(c, TRUE)]

\* The queued caller obtains the lock.
LockGranted(c) ==
  /\ conn[c].pc = "lock"
  /\ ~reconnect_lock
  /\ Prologue(c, 1)
  /\ UNCHANGED <<othervars, lim, profile, running, is_connected, ws_ref, bot_info, caller, disc, engine_running,
                 fails, closes, sub_log, sub_failed, after_disc>>

\* Lines 59-62: the cancelled listen task has ended.
ConnectCancelled(c) ==
  /\ conn[c].pc = "cancel_wait"
  /\ Prologue(c, 2)
  /\ UNCHANGED <<othervars, lim, profile, running, is_connected, ws_ref, bot_info, caller, disc, engine_running,
                 fails, closes, sub_log, sub_failed, after_disc>>

\* Line 65: the close of the previous WebSocket has completed.
ConnectWsClosed(c) ==
  /\ conn[c].pc = "ws_close"
  /\ Prologue(c, 3)
  /\ UNCHANGED <<othervars, lim, profile, running, is_connected, ws_ref, bot_info, caller, disc, engine_running,
                 fails, closes, sub_log, sub_failed, after_disc>>

\* Lines 71-89: GET /api/bots/me answers 200; the profile is stored and the
\* WebSocket connection is requested on self._session (None or a closed
\* session makes that call raise).
GetOk(c) ==
  /\ conn[c].pc = "get"
  /\ sess[conn[c].s] = "open"
  /\ bot_info' = profile
  /\ IF session_ref # 0 /\ sess[session_ref] = "open"
       THEN /\ conn' = [conn EXCEPT ![c].pc = "ws_connect", ![c].s = session_ref]
            /\ UNCHANGED <<reconnect_lock, caller>>
       ELSE Fail(c)
  /\ UNCHANGED <<othervars, lim, profile, running, is_connected, ws_ref, session_ref, listen_task, wsock, sess, ltask,
                 disc, engine_running, fails, closes, sub_log, sub_failed, after_disc>>

\* Lines 75-83: the endpoint answers with an error status or is unreachable.
GetFail(c) ==
  /\ conn[c].pc = "get"
  /\ sess[conn[c].s] = "open"
  /\ fails < lim.fail
  /\ fails' = fails + 1
  /\ Fail(c)
  /\ UNCHANGED <<othervars, lim, profile, running, is_connected, ws_ref, session_ref, listen_task, bot_info, wsock, sess,
                 ltask, disc, engine_running, closes, sub_log, sub_failed, after_disc>>

\* Lines 71-89: the session was closed under the request in flight.
RequestAborted(c) ==
  /\ conn[c].pc \in {"get", "ws_connect"}
  /\ sess[conn[c].s] # "open"
  /\ Fail(c)
  /\ UNCHANGED <<othervars, lim, profile, running, is_connected, ws_ref, session_ref, listen_task, bot_info, wsock, sess,
                 ltask, disc, engine_running, fails, closes, sub_log, sub_failed, after_disc>>

\* Line 89: the endpoint accepts the WebSocket handshake; the channel exists
\* from here on, the task resumes later.
WsConnectOk(c) ==
  /\ conn[c].pc = "ws_connect"
  /\ sess[conn[c].s] = "open"
  /\ \E w \in 1..lim.conn : wsock[w].st = "free"
  /\ wsock' = [wsock EXCEPT ![FreeWs] = [st |-> "open", s |-> conn[c].s]]
  /\ conn' = [conn EXCEPT ![c].pc = "ws_ok", ![c].own = FreeWs]
  /\ UNCHANGED <<othervars, lim, profile, running, is_connected, ws_ref, session_ref, listen_task, reconnect_lock, bot_info,
                 sess, ltask, caller, disc, engine_running, fails, closes, sub_log, sub_failed,
                 after_disc>>

\* Line 89 raises: the endpoint refuses the WebSocket.
WsConnectFail(c) ==
  /\ conn[c].pc = "ws_connect"
  /\ sess[conn[c].s] = "open"
  /\ fails < lim.fail
  /\ fails' = fails + 1
  /\ Fail(c)
  /\ UNCHANGED <<othervars, lim, profile, running, is_connected, ws_ref, session_ref, listen_task, bot_info, wsock, sess,
                 ltask, disc, engine_running, closes, sub_log, sub_failed, after_disc>>

\* variant of lines 89-102: is_connected is set as soon as the WebSocket is
\* connected
ConnectWsOpened_SetsConnected(c) ==
  /\ conn[c].pc = "ws_ok"
  /\ ws_ref' = conn[c].own
  /\ is_connected' = TRUE
  /\ IF wsock[conn[c].own].st = "open"
       THEN /\ conn' = [conn EXCEPT ![c].pc = "auth_recv", ![c].w = conn[c].own]
            /\ UNCHANGED <<reconnect_lock, caller>>
       ELSE Fail(c)
  /\ UNCHANGED <<othervars, lim, profile, running, session_ref, listen_task, bot_info, wsock, sess, ltask,
                 disc, engine_running, fails, closes, sub_log, sub_failed, after_disc>>

\* Lines 89-97: self._ws is assigned and the auth frame is sent; sending on a
\* channel that is no longer open raises.
ConnectWsOpened(c) ==
  /\ conn[c].pc = "ws_ok"
  /\ ws_ref' = conn[c].own
  /\ IF wsock[conn[c].own].st = "open"
       THEN /\ conn' = [conn EXCEPT ![c].pc = "auth_recv", ![c].w = conn[c].own]
            /\ UNCHANGED <<reconnect_lock, caller>>
       ELSE Fail(c)
  /\ UNCHANGED <<othervars, lim, profile, running, is_connected, session_ref, listen_task, bot_info, wsock, sess, ltask,
                 disc, engine_running, fails, closes, sub_log, sub_failed, after_disc>>

\* Line 97: the auth_success frame arrives; the task resumes later.
AuthReplyOk(c) ==
  /\ conn[c].pc = "auth_recv"
  /\ wsock[conn[c].w].st = "open"
  /\ conn' = [conn EXCEPT ![c].pc = "auth_ok"]
  /\ UNCHANGED <<othervars, lim, profile, running, is_connected, ws_ref, session_ref, listen_task, reconnect_lock, bot_info,
                 wsock, sess, ltask, caller, disc, engine_running, fails, closes, sub_log,
                 sub_failed, after_disc>>

\* Lines 98-99, 119-121: the reply to the auth frame is not auth_success.
AuthRejected(c) ==
  /\ conn[c].pc = "auth_recv"
  /\ wsock[conn[c].w].st = "open"
  /\ fails < lim.fail
  /\ \E x \in 1..lim.conn : wsock[x].st = "free"
  /\ fails' = fails + 1
  /\ Fail(c)
  /\ UNCHANGED <<othervars, lim, profile, running, is_connected, ws_ref, session_ref, listen_task, bot_info, wsock, sess,
                 ltask, disc, engine_running, closes, sub_log, sub_failed, after_disc>>

\* Line 97 raises: the channel was closed while the reply was awaited
\* (receive_json gets a close frame).
AuthClosed(c) ==
  /\ conn[c].pc = "auth_recv"
  /\ wsock[conn[c].w].st \notin {"open", "free"}
  /\ wsock' = [wsock EXCEPT ![conn[c].w].st = "closed"]
  /\ Fail(c)
  /\ UNCHANGED <<othervars, lim, profile, running, is_connected, ws_ref, session_ref, listen_task, bot_info, sess,
                 ltask, disc, engine_running, fails, closes, sub_log, sub_failed, after_disc>>


\* Line 105: the groups connect() subscribes to
ApprovedGroups == bot_info

\* Line 108: send_json on self._ws succeeds only on an open channel (None or a
\* closed channel raises, which line 114 catches)
WsUsable == ws_ref # 0 /\ wsock[ws_ref].st = "open"

\* variant of lines 106-117 without the try of line 107: the first
\* subscription that fails makes connect() raise
SubLoop_AbortOnFailure(c, i0, log, failed) ==
  IF failed # {} \/ (i0 <= Len(ApprovedGroups) /\ ~WsUsable) THEN
    /\ sub_log' = log
    /\ sub_failed' = failed
    /\ Fail(c)
    /\ UNCHANGED <<listen_task, ltask>>
  ELSE IF i0 > Len(ApprovedGroups) THEN
    /\ sub_log' = log
    /\ sub_failed' = failed
    /\ Finish(c, conn[c].own)
  ELSE
    /\ sub_log' = Append(log, ApprovedGroups[i0])
    /\ sub_failed' = failed
    /\ conn' = [conn EXCEPT ![c].pc = "sub_recv", ![c].i = i0, ![c].w = ws_ref]
    /\ UNCHANGED <<reconnect_lock, listen_task, ltask, caller>>

\* Lines 106-117 from the subscription of group number i0 to the next await
\* that suspends: a send that raises is caught and the loop goes on without
\* suspending; after the last group the listen task is created.
SubLoop(c, i0, log, failed) ==
  IF i0 > Len(ApprovedGroups) THEN
    /\ sub_log' = log
    /\ sub_failed' = failed
    /\ Finish(c, conn[c].own)
  ELSE IF WsUsable THEN
    /\ sub_log' = Append(log, ApprovedGroups[i0])
    /\ sub_failed' = failed
    /\ conn' = [conn EXCEPT ![c].pc = "sub_recv", ![c].i = i0, ![c].w = ws_ref]
    /\ UNCHANGED <<reconnect_lock, listen_task, ltask, caller>>
  ELSE
    /\ sub_log' = log \o SubSeq(ApprovedGroups, i0, Len(ApprovedGroups))
    /\ sub_failed' = failed \cup (i0..Len(ApprovedGroups))
    /\ Finish(c, conn[c].own)

\* Lines 98-106: the task resumes with auth_success.
ConnectAuthOk(c) ==
  /\ conn[c].pc = "auth_ok"
  /\ is_connected' = TRUE
  /\ running' = TRUE
  /\ SubLoop(c, 1, << >>, {})
  /\ UNCHANGED <<othervars, lim, profile, ws_ref, session_ref, bot_info, wsock, sess, disc, engine_running, fails, closes,
                 after_disc>>

\* Lines 109-111: the reply is {type: subscribed}.
SubAck(c) ==
  /\ conn[c].pc = "sub_recv"
  /\ wsock[conn[c].w].st = "open"
  /\ SubLoop(c, conn[c].i + 1, sub_log, sub_failed)
  /\ UNCHANGED <<othervars, lim, profile, running, is_connected, ws_ref, session_ref, bot_info, wsock, sess, disc,
                 engine_running, fails, closes, after_disc>>

\* Lines 112-113: the reply is any other frame.
SubRejected(c) ==
  /\ conn[c].pc = "sub_recv"
  /\ wsock[conn[c].w].st = "open"
  /\ SubLoop(c, conn[c].i + 1, sub_log, sub_failed \cup {conn[c].i})
  /\ UNCHANGED <<othervars, lim, profile, running, is_connected, ws_ref, session_ref, bot_info, wsock, sess, disc,
                 engine_running, fails, closes, after_disc>>

\* Lines 109, 114-115: wait_for gives up after 5 seconds, or receive_json
\* raises on a channel that was closed meanwhile.
SubTimeout(c) ==
  /\ conn[c].pc = "sub_recv"
  /\ SubLoop(c, conn[c].i + 1, sub_log, sub_failed \cup {conn[c].i})
  /\ UNCHANGED <<othervars, lim, profile, running, is_connected, ws_ref, session_ref, bot_info, wsock, sess, disc,
                 engine_running, fails, closes, after_disc>>

\* --------------------------------------------------------- _listen_loop()
\* Line 125
LoopCond == running /\ ws_ref # 0 /\ wsock[ws_ref].st # "closed"

\* variant of lines 150-151: the loop is left and no reconnect task is created
Exit_NoReconnect(t) ==
  /\ ltask' = [ltask EXCEPT ![t] = [pc |-> "done", w |-> 0]]
  /\ caller' = caller

\* Lines 150-151: the loop is left; a reconnect task is created while running.
Exit(t) ==
  /\ ltask' = [ltask EXCEPT ![t] = [pc |-> "done", w |-> 0]]
  /\ caller' = IF running
                 THEN [caller EXCEPT ![t] = [IdleCaller EXCEPT !.pc = "start"]]
                 ELSE caller

\* Lines 125-127: the loop condition is evaluated and receive() is awaited on
\* the current self._ws.
LoopOrExit(t) ==
  IF LoopCond
    THEN /\ ltask' = [ltask EXCEPT ![t] = [pc |-> "recv", w |-> ws_ref]]
         /\ UNCHANGED caller
    ELSE Exit(t)

\* The created task runs for the first time.
ListenStart(t) ==
  /\ ltask[t].pc = "ready"
  /\ LoopOrExit(t)
  /\ sub_log' = << >>
  /\ sub_failed' = {}
  /\ UNCHANGED <<othervars, lim, profile, running, is_connected, ws_ref, session_ref, listen_task, reconnect_lock,
                 bot_info, wsock, sess, conn, disc, engine_running, fails, closes, after_disc>>

\* Lines 130-133: a text frame arrives and its handling is awaited.
ListenRecvText(t) ==
  /\ ltask[t].pc = "recv"
  /\ wsock[ltask[t].w].st = "open"
  /\ ltask' = [ltask EXCEPT ![t].pc = "handling"]
  /\ UNCHANGED <<othervars, lim, profile, running, is_connected, ws_ref, session_ref, listen_task, reconnect_lock, bot_info,
                 wsock, sess, caller, conn, disc, engine_running, fails, closes, sub_log,
                 sub_failed, after_disc>>

\* Lines 135-141: receive() reports the end of the channel.  A close by the
\* peer or a transport error breaks the loop; a close made by this process
\* yields a CLOSING message, which no branch matches, so the loop condition
\* is evaluated again.
ListenRecvClose(t) ==
  /\ ltask[t].pc = "recv"
  /\ wsock[ltask[t].w].st \in {"rclosed", "closed"}
  /\ IF wsock[ltask[t].w].st = "rclosed"
       THEN /\ wsock' = [wsock EXCEPT ![ltask[t].w].st = "closed"]
            /\ Exit(t)
       ELSE /\ wsock' = wsock
            /\ LoopOrExit(t)
  /\ UNCHANGED <<othervars, lim, profile, running, is_connected, ws_ref, session_ref, listen_task, reconnect_lock, bot_info,
                 sess, conn, disc, engine_running, fails, closes, sub_log, sub_failed,
                 after_disc>>

\* Line 133 returns: the frame was handled.
ListenHandled(t) ==
  /\ ltask[t].pc = "handling"
  /\ LoopOrExit(t)
  /\ UNCHANGED <<othervars, lim, profile, running, is_connected, ws_ref, session_ref, listen_task, reconnect_lock, bot_info,
                 wsock, sess, conn, disc, engine_running, fails, closes, sub_log, sub_failed,
                 after_disc>>

\* Lines 131-133, 146-148: decoding or handling the frame raises.
ListenHandlerRaised(t) ==
  /\ ltask[t].pc = "handling"
  /\ closes < lim.close
  /\ \E x \in 1..lim.conn : wsock[x].st = "free"
  /\ closes' = closes + 1
  /\ Exit(t)
  /\ UNCHANGED <<othervars, lim, profile, running, is_connected, ws_ref, session_ref, listen_task, reconnect_lock, bot_info,
                 wsock, sess, conn, disc, engine_running, fails, sub_log, sub_failed,
                 after_disc>>

\* The peer closes the channel or the transport fails.
RemoteClose(w) ==
  /\ wsock[w].st = "open"
  /\ closes < lim.close
  /\ \E x \in 1..lim.conn : wsock[x].st = "free"
  /\ closes' = closes + 1
  /\ wsock' = [wsock EXCEPT ![w].st = "rclosed"]
  /\ UNCHANGED <<othervars, lim, profile, running, is_connected, ws_ref, session_ref, listen_task, reconnect_lock, bot_info,
                 sess, ltask, caller, conn, disc, engine_running, fails, sub_log, sub_failed,
                 after_disc>>

\* ------------------------------------------------------------ _reconnect()
\* Lines 155-164: the task runs for the first time.
ReconnectStart(r) ==
  /\ r \in RecIds
  /\ caller[r].pc = "start"
  /\ IF ~running \/ reconnect_lock
       THEN /\ caller' = [caller EXCEPT ![r] = [IdleCaller EXCEPT !.pc = "done", !.stale = caller[r].stale]]
            /\ UNCHANGED is_connected
       ELSE /\ is_connected' = FALSE
            /\ caller' = [caller EXCEPT ![r].pc = "sleep", ![r].delay = BaseDelay, ![r].attempt = 1]
  /\ UNCHANGED <<othervars, lim, profile, running, ws_ref, session_ref, listen_task, reconnect_lock, bot_info, wsock, sess,
                 ltask, conn, disc, engine_running, fails, closes, sub_log, sub_failed,
                 after_disc>>

\* Lines 169-175: the backoff sleep is over.
ReconnectWake(r) ==
  /\ r \in RecIds
  /\ caller[r].pc = "sleep"
  /\ IF ~running
       THEN /\ caller' = [caller EXCEPT ![r] = [IdleCaller EXCEPT !.pc = "done", !.stale = caller[r].stale]]
            /\ UNCHANGED <<conn, reconnect_lock, ltask, listen_task, wsock, sess, session_ref,
                           after_disc>>
       ELSE /\ caller' = [caller EXCEPT ![r].pc = "connect",
                                        ![r].stale = IF @ = 0 THEN 0 ELSE 2]
            /\ Enter(r)
  /\ UNCHANGED <<othervars, lim, profile, running, is_connected, ws_ref, bot_info, disc, engine_running, fails, closes,
                 sub_log, sub_failed>>

\* ------------------------------------------- BotEngine._connect_platform()
\* engine.py lines 94-97: the task runs for the first time.
EngineStart ==
  /\ caller[Eng].pc = "start"
  /\ IF engine_running
       THEN /\ caller' = [caller EXCEPT ![Eng].pc = "connect"]
            /\ Enter(Eng)
       ELSE /\ caller' = [caller EXCEPT ![Eng] = [IdleCaller EXCEPT !.pc = "done"]]
            /\ UNCHANGED <<conn, reconnect_lock, ltask, listen_task, wsock, sess, session_ref,
                           after_disc>>
  /\ UNCHANGED <<othervars, lim, profile, running, is_connected, ws_ref, bot_info, disc, engine_running, fails, closes,
                 sub_log, sub_failed>>

\* engine.py lines 103-104, 94-97: the retry sleep is over.
EngineWake ==
  /\ caller[Eng].pc = "sleep"
  /\ IF engine_running
       THEN /\ caller' = [caller EXCEPT ![Eng].pc = "connect", ![Eng].delay = NextDelay(@)]
            /\ Enter(Eng)
       ELSE /\ caller' = [caller EXCEPT ![Eng] = [IdleCaller EXCEPT !.pc = "done", !.res = "err"]]
            /\ UNCHANGED <<conn, reconnect_lock, ltask, listen_task, wsock, sess, session_ref,
                           after_disc>>
  /\ UNCHANGED <<othervars, lim, profile, running, is_connected, ws_ref, bot_info, disc, engine_running, fails, closes,
                 sub_log, sub_failed>>

\* ------------------------------------------------- management API, api.py
\* main.py lines 60-83: the API server is started after engine.start(), so
\* the engine's connect task has run before the first request is served, and
\* it is stopped before engine.stop().
ApiServing == disc[0] = "idle" /\ caller[Eng].pc # "start"

\* api.py lines 107-117: POST /platforms/devnetwork/connect
ApiConnect(a) ==
  /\ a \in ApiIds
  /\ caller[a].pc = "idle"
  /\ 0 - a <= lim.api
  /\ a + 1 \in ApiIds => caller[a + 1].pc # "idle"
  /\ ApiServing
  /\ ~is_connected
  /\ caller' = [caller EXCEPT ![a].pc = "connect"]
  /\ Enter(a)
  /\ UNCHANGED <<othervars, lim, profile, running, is_connected, ws_ref, bot_info, disc, engine_running, fails, closes,
                 sub_log, sub_failed>>


\* ------------------------------------------------------------ disconnect()
\* Closing a session closes the transport of every WebSocket made from it.
SessionClosed(s) ==
  [w \in WsIds |-> IF wsock[w].s = s /\ wsock[w].st = "open"
                     THEN [wsock[w] EXCEPT !.st = "rclosed"] ELSE wsock[w]]

\* Lines 622-630 up to the next await that suspends.  phase 1: after lines
\* 619-620; 2: self._ws.close() has been awaited; 3: self._session.close()
\* has been awaited.  Closing what is closed already does not suspend;
\* closing an open session suspends or not, depending on its connector.
DisconnectBody(d, phase) ==
  IF phase = 1 /\ ws_ref # 0 /\ wsock[ws_ref].st # "closed" THEN
    /\ wsock' = [wsock EXCEPT ![ws_ref].st = "closed"]
    /\ disc' = [disc EXCEPT ![d] = "ws_close"]
    /\ after_disc' = "called"
    /\ UNCHANGED <<ws_ref, sess, session_ref>>
  ELSE IF phase <= 2 /\ session_ref # 0 /\ sess[session_ref] # "closed" THEN
    /\ ws_ref' = 0
    /\ sess' = [sess EXCEPT ![session_ref] = "closed"]
    /\ wsock' = SessionClosed(session_ref)
    /\ \/ /\ disc' = [disc EXCEPT ![d] = "sess_close"]
          /\ after_disc' = IF phase = 1 THEN "called" ELSE after_disc
          /\ UNCHANGED session_ref
       \/ /\ disc' = [disc EXCEPT ![d] = "done"]
          /\ session_ref' = 0
          /\ after_disc' = IF phase = 1 \/ after_disc = "called" THEN "returned" ELSE after_disc
  ELSE
    /\ ws_ref' = IF phase <= 2 THEN 0 ELSE ws_ref
    /\ session_ref' = 0
    /\ disc' = [disc EXCEPT ![d] = "done"]
    /\ after_disc' = IF phase = 1 \/ after_disc = "called" THEN "returned" ELSE after_disc
    /\ UNCHANGED <<wsock, sess>>

\* Lines 617-630 cancel no task: the _reconnect tasks that sleep in their
\* backoff delay (line 169) when disconnect() is called go on, marked here.
MarkStale ==
  [c \in Callers |->
     IF c \in RecIds /\ caller[c].pc = "sleep" /\ caller[c].stale = 0
       THEN [caller[c] EXCEPT !.stale = 1] ELSE caller[c]]

\* disconnect() is called: by BotEngine.stop() (d = 0; engine.py lines
\* 109-113, after main() has stopped the API server) or by the API's
\* disconnect_platform (api.py lines 129-133).  Lines 619-620 run at once.
DisconnectCall(d) ==
  /\ disc[d] = "idle"
  /\ IF d = 0 THEN lim.stop ELSE d <= lim.disc
  /\ IF d = 0
       THEN /\ \A a \in ApiIds : caller[a].pc # "connect"
            /\ \A x \in DiscIds : disc[x] \in {"idle", "done"}
       ELSE /\ ApiServing
            /\ is_connected
            /\ d > 1 => disc[d - 1] # "idle"
  /\ engine_running' = IF d = 0 THEN FALSE ELSE engine_running
  /\ running' = FALSE
  /\ is_connected' = FALSE
  /\ caller' = MarkStale
  /\ DisconnectBody(d, 1)
  /\ UNCHANGED <<othervars, lim, profile, listen_task, reconnect_lock, bot_info, ltask, conn, fails, closes, sub_log,
                 sub_failed>>

\* Lines 623-624: self._ws.close() has completed.
DisconnectWsClosed(d) ==
  /\ disc[d] = "ws_close"
  /\ DisconnectBody(d, 2)
  /\ UNCHANGED <<othervars, lim, profile, running, is_connected, listen_task, reconnect_lock, bot_info, ltask, caller, conn,
                 engine_running, fails, closes, sub_log, sub_failed>>

\* Lines 627-630: self._session.close() has completed.
DisconnectSessionClosed(d) ==
  /\ disc[d] = "sess_close"
  /\ DisconnectBody(d, 3)
  /\ UNCHANGED <<othervars, lim, profile, running, is_connected, listen_task, reconnect_lock, bot_info, ltask, caller, conn,
                 engine_running, fails, closes, sub_log, sub_failed>>

\* ------------------------------------------------------------ specification
Next ==
  \/ EngineStart
  \/ EngineWake
  \/ \E a \in ApiIds : ApiConnect(a)
  \/ \E r \in RecIds : ReconnectStart(r)
  \/ \E r \in RecIds : ReconnectWake(r)
  \/ \E c \in Callers : LockGranted(c)
  \/ \E c \in Callers : ConnectCancelled(c)
  \/ \E c \in Callers : ConnectWsClosed(c)
  \/ \E c \in Callers : GetOk(c)
  \/ \E c \in Callers : GetFail(c)
  \/ \E c \in Callers : RequestAborted(c)
  \/ \E c \in Callers : WsConnectOk(c)
  \/ \E c \in Callers : WsConnectFail(c)
  \/ \E c \in Callers : ConnectWsOpened(c)
  \/ \E c \in Callers : AuthReplyOk(c)
  \/ \E c \in Callers : AuthRejected(c)
  \/ \E c \in Callers : AuthClosed(c)
  \/ \E c \in Callers : ConnectAuthOk(c)
  \/ \E c \in Callers : SubAck(c)
  \/ \E c \in Callers : SubRejected(c)
  \/ \E c \in Callers : SubTimeout(c)
  \/ \E t \in WsIds : ListenStart(t)
  \/ \E t \in WsIds : ListenRecvText(t)
  \/ \E t \in WsIds : ListenRecvClose(t)
  \/ \E t \in WsIds : ListenHandled(t)
  \/ \E t \in WsIds : ListenHandlerRaised(t)
  \/ \E w \in WsIds : RemoteClose(w)
  \/ \E d \in DiscIds : DisconnectCall(d)
  \/ \E d \in DiscIds : DisconnectWsClosed(d)
  \/ \E d \in DiscIds : DisconnectSessionClosed(d)

Spec == Init /\ [][Next]_vars

\* connect() called by the engine, by overlapping API requests and by the
\* reconnect tasks; disconnect() is not called.
InitRace ==
  /\ lim = [conn |-> RaceConn, api |-> RaceApi, disc |-> 0, stop |-> FALSE,
            fail |-> RaceFail, close |-> RaceClose]
  /\ profile \in GroupLists
  /\ Started
  /\ OthersIdle

NextRace ==
  \/ EngineStart
  \/ EngineWake
  \/ \E a \in ApiIds : ApiConnect(a)
  \/ \E r \in RecIds : ReconnectStart(r)
  \/ \E r \in RecIds : ReconnectWake(r)
  \/ \E c \in Callers : LockGranted(c)
  \/ \E c \in Callers : ConnectCancelled(c)
  \/ \E c \in Callers : ConnectWsClosed(c)
  \/ \E c \in Callers : GetOk(c)
  \/ \E c \in Callers : GetFail(c)
  \/ \E c \in Callers : WsConnectOk(c)
  \/ \E c \in Callers : WsConnectFail(c)
  \/ \E c \in Callers : ConnectWsOpened(c)
  \/ \E c \in Callers : AuthReplyOk(c)
  \/ \E c \in Callers : AuthRejected(c)
  \/ \E c \in Callers : AuthClosed(c)
  \/ \E c \in Callers : ConnectAuthOk(c)
  \/ \E c \in Callers : SubAck(c)
  \/ \E c \in Callers : SubRejected(c)
  \/ \E c \in Callers : SubTimeout(c)
  \/ \E t \in WsIds : ListenStart(t)
  \/ \E t \in WsIds : ListenRecvText(t)
  \/ \E t \in WsIds : ListenRecvClose(t)
  \/ \E t \in WsIds : ListenHandled(t)
  \/ \E t \in WsIds : ListenHandlerRaised(t)
  \/ \E w \in WsIds : RemoteClose(w)

RaceSpec == InitRace /\ [][NextRace]_vars

\* An operator who connects and disconnects through the API while the
\* process runs; the endpoint refuses nothing and the bot has no group.
InitApi ==
  /\ lim = [conn |-> RaceConn, api |-> RaceApi, disc |-> MaxApiDisconnect, stop |-> FALSE,
            fail |-> 0, close |-> RaceClose]
  /\ profile = << >>
  /\ Started
  /\ OthersIdle

NextApi ==
  \/ EngineStart
  \/ EngineWake
  \/ \E a \in ApiIds : ApiConnect(a)
  \/ \E r \in RecIds : ReconnectStart(r)
  \/ \E r \in RecIds : ReconnectWake(r)
  \/ \E c \in Callers : LockGranted(c)
  \/ \E c \in Callers : ConnectCancelled(c)
  \/ \E c \in Callers : ConnectWsClosed(c)
  \/ \E c \in Callers : GetOk(c)
  \/ \E c \in Callers : RequestAborted(c)
  \/ \E c \in Callers : WsConnectOk(c)
  \/ \E c \in Callers : ConnectWsOpened(c)
  \/ \E c \in Callers : AuthReplyOk(c)
  \/ \E c \in Callers : AuthClosed(c)
  \/ \E c \in Callers : ConnectAuthOk(c)
  \/ \E t \in WsIds : ListenStart(t)
  \/ \E t \in WsIds : ListenRecvText(t)
  \/ \E t \in WsIds : ListenRecvClose(t)
  \/ \E t \in WsIds : ListenHandled(t)
  \/ \E t \in WsIds : ListenHandlerRaised(t)
  \/ \E w \in WsIds : RemoteClose(w)
  \/ \E d \in DiscIds : DisconnectCall(d)
  \/ \E d \in DiscIds : DisconnectWsClosed(d)
  \/ \E d \in DiscIds : DisconnectSessionClosed(d)

ApiSpec == InitApi /\ [][NextApi]_vars

\* The engine and the reconnect tasks alone: no API request, no shutdown.
InitLive ==
  /\ lim = [conn |-> LiveConn, api |-> 0, disc |-> 0, stop |-> FALSE,
            fail |-> LiveFail, close |-> LiveClose]
  /\ profile \in GroupLists
  /\ Started
  /\ OthersIdle

NextLive ==
  \/ EngineStart
  \/ EngineWake
  \/ \E r \in RecIds : ReconnectStart(r)
  \/ \E r \in RecIds : ReconnectWake(r)
  \/ \E c \in Callers : ConnectWsClosed(c)
  \/ \E c \in Callers : GetOk(c)
  \/ \E c \in Callers : GetFail(c)
  \/ \E c \in Callers : WsConnectOk(c)
  \/ \E c \in Callers : WsConnectFail(c)
  \/ \E c \in Callers : ConnectWsOpened(c)
  \/ \E c \in Callers : AuthReplyOk(c)
  \/ \E c \in Callers : AuthRejected(c)
  \/ \E c \in Callers : AuthClosed(c)
  \/ \E c \in Callers : ConnectAuthOk(c)
  \/ \E c \in Callers : SubAck(c)
  \/ \E c \in Callers : SubRejected(c)
  \/ \E c \in Callers : SubTimeout(c)
  \/ \E t \in WsIds : ListenStart(t)
  \/ \E t \in WsIds : ListenRecvText(t)
  \/ \E t \in WsIds : ListenRecvClose(t)
  \/ \E t \in WsIds : ListenHandled(t)
  \/ \E t \in WsIds : ListenHandlerRaised(t)
  \/ \E w \in WsIds : RemoteClose(w)

LiveSafe == InitLive /\ [][NextLive]_vars

\* The event loop runs every task that is ready, every timer expires, and
\* what was closed is reported closed.
ProgramFair ==
  /\ WF_vars(EngineStart)
  /\ WF_vars(EngineWake)
  /\ \A r \in RecIds : WF_vars(ReconnectStart(r)) /\ WF_vars(ReconnectWake(r))
  /\ \A c \in Callers : /\ WF_vars(ConnectWsClosed(c))
                        /\ WF_vars(ConnectWsOpened(c))
                        /\ WF_vars(AuthClosed(c))
                        /\ WF_vars(ConnectAuthOk(c))
                        /\ WF_vars(SubTimeout(c))
  /\ \A t \in WsIds : /\ WF_vars(ListenStart(t))
                      /\ WF_vars(ListenRecvClose(t))
                      /\ WF_vars(ListenHandled(t))

\* The endpoint answers the HTTP request and the WebSocket handshake; it need
\* not answer the authentication frame.
FairSpec ==
  /\ LiveSafe
  /\ ProgramFair
  /\ \A c \in Callers : WF_vars(GetOk(c)) /\ WF_vars(WsConnectOk(c))

\* The endpoint accepts connections: it also answers the authentication frame.
LiveSpec ==
  /\ FairSpec
  /\ \A c \in Callers : WF_vars(AuthReplyOk(c))

TypeOK ==
  /\ running \in BOOLEAN /\ is_connected \in BOOLEAN
  /\ ws_ref \in 0..PoolSize /\ listen_task \in 0..PoolSize
  /\ reconnect_lock \in BOOLEAN
  /\ after_disc \in {"no", "called", "returned"}
  /\ \A c \in Callers : conn[c].pc \in {"none", "lock", "cancel_wait", "ws_close", "get",
                                        "ws_connect", "ws_ok", "auth_recv", "auth_ok", "sub_recv"}
  /\ \A c \in Callers : (conn[c].pc # "none") => caller[c].pc = "connect"
  /\ reconnect_lock <=> \E c \in Callers : conn[c].pc \notin {"none", "lock"}
  /\ Cardinality({c \in Callers : conn[c].pc \notin {"none", "lock"}}) <= 1


\* ------------------------------------------------------------------ claims
OpenWs == {w \in WsIds : wsock[w].st = "open"}
LiveListen == {t \in WsIds : ltask[t].pc \in {"ready", "recv", "handling"}}
Connected ==
  /\ is_connected
  /\ listen_task # 0 /\ listen_task \in LiveListen
  /\ ws_ref # 0 /\ wsock[ws_ref].st = "open"

Succeeded == {c \in Callers : caller[c].pc = "done" /\ caller[c].res = "ok"}
Quiet == fails = 0 /\ closes = 0 /\ \A c \in Callers : conn[c].pc = "none"

\* C1: whatever the interleaving of the connect() calls of the engine, of
\* API requests and of reconnect tasks with the exits of the listen loop, at
\* most one listen task is live and at most one WebSocket is open; and once
\* overlapping calls have all returned without raising, the transport not
\* lost, exactly the recorded listen task is live and exactly the recorded
\* WebSocket is open.
C1_AtMostOne ==
  /\ Cardinality(LiveListen) <= 1
  /\ Cardinality(OpenWs) <= 1
  /\ (Quiet /\ Cardinality(Succeeded) >= 2) => (LiveListen = {listen_task} /\ OpenWs = {ws_ref})
\* the engine's call and an API request that arrived before it returned have
\* both succeeded
C1_Witness ==
  /\ Quiet
  /\ Eng \in Succeeded /\ Succeeded \cap ApiIds # {}
  /\ Cardinality(LiveListen) = 1 /\ Cardinality(OpenWs) = 1

TransportLost ==
  /\ is_connected /\ running
  /\ listen_task # 0 /\ listen_task \in LiveListen
  /\ ws_ref # 0 /\ wsock[ws_ref].st = "rclosed"

\* C2: when the transport of the current WebSocket is lost while the handler
\* is connected with a live listen task, the handler is eventually connected
\* again (is_connected, a live listen task, an open WebSocket), nobody but
\* the handler's own reconnect task calling connect().
C2_Reconnects == TransportLost ~> Connected
\* a reconnect task has restored the connection
C2_Witness ==
  /\ Connected
  /\ closes > 0
  /\ \E r \in RecIds : caller[r].pc = "done" /\ caller[r].res = "ok"

\* C3: the delay a reconnect task sleeps before its attempt number n is
\* min(5 * 2^(n-1), 120): 5 first, doubled by every failure, never above 120.
C3_Backoff ==
  \A r \in RecIds :
    caller[r].pc \in {"sleep", "connect"} =>
      /\ caller[r].attempt >= 1
      /\ caller[r].delay = Min(BaseDelay * 2 ^ (caller[r].attempt - 1), MaxDelay)
\* the seventh attempt sleeps the cap, as the sixth did
C3_Witness == \E r \in RecIds : caller[r].pc = "sleep" /\ caller[r].attempt = 7 /\ caller[r].delay = MaxDelay

InLoop(r) == caller[r].pc \in {"sleep", "connect"}

\* C4: a reconnect task that has entered its loop leaves it only when its
\* connect() returned without raising or when the running flag is clear; a
\* connect() that raises while the flag is set is followed by another sleep.
C4_LoopEnds ==
  [][\A r \in RecIds :
       /\ (InLoop(r) /\ caller'[r].pc # caller[r].pc /\ ~InLoop(r)')
            => (caller'[r].pc = "done" /\ (caller'[r].res = "ok" \/ ~running))
       /\ (caller[r].pc = "connect" /\ conn[r].pc # "none" /\ conn'[r].pc = "none"
             /\ caller'[r].res = "err" /\ running)
            => (caller'[r].pc = "sleep" /\ caller'[r].attempt = caller[r].attempt + 1)]_vars
\* a failed attempt was followed by another
C4_Witness == \E r \in RecIds : caller[r].pc = "connect" /\ caller[r].attempt >= 2 /\ running

\* C5: once disconnect() has returned, no connect() having been called since
\* it was called, is_connected and the running flag are false, no WebSocket
\* is open and no listen task is live.
C5_StaysDisconnected ==
  after_disc = "returned" => (~is_connected /\ ~running /\ OpenWs = {} /\ LiveListen = {})
\* a connect() that was in flight when the API request called disconnect()
\* has connected the handler after disconnect() returned
C5_ConnectedAfterReturn == after_disc = "returned" /\ Connected /\ running /\ engine_running

\* C6: no reconnect task that slept in its backoff delay when disconnect()
\* was called calls connect() afterwards.
C6_NoStaleAttempt == \A r \in RecIds : caller[r].stale # 2

Authenticating(c) == conn[c].pc \in {"auth_recv", "auth_ok"}
Subscribing(c) == conn[c].pc = "sub_recv"

AuthRejectedStep(c) ==
  /\ conn[c].pc = "auth_recv" /\ wsock[conn[c].w].st = "open"
  /\ conn'[c].pc = "none"

\* C8: the step in which connect() raises because the reply to the auth
\* frame is not auth_success leaves the WebSocket of the attempt not open, no
\* live listen task, is_connected false and the running flag as it was.
C8_NoPartialState ==
  [][\A c \in Callers :
       AuthRejectedStep(c) =>
         /\ caller'[c].res = "err"
         /\ wsock'[conn[c].w].st # "open"
         /\ LiveListen' = {}
         /\ ~is_connected'
         /\ running' = running]_vars

\* C9: an attempt that waits for the reply to its auth frame eventually
\* stops waiting, and the connect lock is eventually free again.
C9_AuthWaitEnds ==
  (\E c \in Callers : conn[c].pc = "auth_recv") ~> ~reconnect_lock

\* C10: from auth_success on, connect() has requested the subscription of
\* the approved groups up to the one it waits for, in list order, one request
\* each; and whatever subscriptions fail, it ends by starting a listen task
\* and returning to its caller without raising, all groups requested.
C10_BestEffort ==
  [][/\ \A c \in Callers :
          conn'[c].pc = "sub_recv" =>
            /\ conn'[c].i \in 1..Len(bot_info')
            /\ sub_log' = SubSeq(bot_info', 1, conn'[c].i)
     /\ \A c \in Callers :
          (conn[c].pc \in {"auth_ok", "sub_recv"} /\ conn'[c] # conn[c]) =>
            \/ /\ conn'[c].pc = "sub_recv"
               /\ conn'[c].i = IF conn[c].pc = "auth_ok" THEN 1 ELSE conn[c].i + 1
            \/ /\ conn'[c].pc = "none"
               /\ sub_log' = bot_info'
               /\ caller'[c].res = "ok"
               /\ listen_task' = conn[c].own
               /\ ltask'[conn[c].own].pc = "ready"]_vars
\* the first of two subscriptions failed, the second was acknowledged, and
\* the listen task was created
C10_Witness ==
  /\ Len(bot_info) = 2 /\ sub_log = bot_info /\ sub_failed = {1}
  /\ listen_task # 0 /\ ltask[listen_task].pc = "ready"

\* C11: a listen task that handles a frame while the loop condition holds is
\* not ended by that frame: whatever the handling does, the task goes on to
\* the next receive() and no reconnect task is created for it.
C11_LoopSurvivesFrame ==
  [][\A t \in WsIds :
       (ltask[t].pc = "handling" /\ LoopCond /\ ltask'[t] # ltask[t]) =>
         /\ ltask'[t].pc = "recv"
         /\ caller'[t] = caller[t]]_vars
\* a frame's handling raised: the task has ended and its reconnect task
\* exists although the channel it read from is still open
C11_EndedByFrame ==
  \E t \in WsIds :
    /\ ltask[t].pc = "done" /\ caller[t].pc = "start"
    /\ ws_ref = t /\ wsock[t].st = "open" /\ running
    /\ listen_task = t

\* ================================================================ RateSpec
\* check_rate_limit alone: identities call it as time passes.

\* An event handler calls check_rate_limit for identity u.
CheckRateLimit(u) ==
  /\ rl_call.n < MaxCalls
  /\ check_rate_limit(u)
  /\ UNCHANGED <<connvars, extvars, sendvars, pipevars, msgvars, chunkvars, now, rl_cfg>>

\* A second passes on the clock read by time.time().
Tick ==
  /\ now < MaxTime
  /\ now' = now + 1
  /\ UNCHANGED <<connvars, extvars, sendvars, pipevars, msgvars, chunkvars, rl_cfg, rate_limits, admitted, rl_call>>

InitRate ==
  /\ lim = [conn |-> 0, api |-> 0, disc |-> 0, stop |-> FALSE, fail |-> 0, close |-> 0]
  /\ profile = << >>
  /\ Started
  /\ rl_cfg \in [max : 1..MaxMessages, window : 1..MaxWindow]
  /\ RateIdle
  /\ cfg = [respond_to_dms |-> TRUE, respond_to_groups |-> TRUE, require_mention |-> TRUE,
            operator |-> 1]
  /\ MsgIdle
  /\ ch_text = << >> /\ ch_limit = 1
  /\ ChunkIdle
  /\ SendIdle
  /\ PipeIdle
  /\ ExtIdle

NextRate ==
  \/ \E u \in Users : CheckRateLimit(u)
  \/ Tick

RateSpec == InitRate /\ [][NextRate]_vars

\* ================================================================= MsgSpec
\* The listen task handles one inbound frame after the other.

\* Lines 196-217: _handle_dm(data)
HandleDm(f, e) ==
  /\ ev.n < MaxFrames
  /\ IF ~cfg.respond_to_dms \/ IsSelf(f.sender)
       THEN /\ ev' = Skipped("dm", f)
            /\ UNCHANGED <<rate_limits, admitted, rl_call>>
       ELSE /\ check_rate_limit(f.sender)
            /\ ev' = Gate(Admits(f.sender), DmAdmitted(f, e),
                          [Skipped("dm", f) EXCEPT !.rl = "denied"])
  /\ UNCHANGED <<connvars, extvars, sendvars, pipevars, chunkvars, now, rl_cfg, cfg>>

\* Lines 260-285: _handle_group_message(data)
HandleGroupMessage(f, e) ==
  /\ ev.n < MaxFrames
  /\ IF \/ ~cfg.respond_to_groups
        \/ IsSelf(f.sender)
        \/ cfg.require_mention /\ ~IsMention(f.content)
       THEN /\ ev' = Skipped("group", f)
            /\ UNCHANGED <<rate_limits, admitted, rl_call>>
       ELSE /\ check_rate_limit(f.sender)
            /\ ev' = Gate(Admits(f.sender), GroupAdmitted(f, e),
                          [Skipped("group", f) EXCEPT !.rl = "denied"])
  /\ UNCHANGED <<connvars, extvars, sendvars, pipevars, chunkvars, now, rl_cfg, cfg>>

InitMsg ==
  /\ lim = [conn |-> 0, api |-> 0, disc |-> 0, stop |-> FALSE, fail |-> 0, close |-> 0]
  /\ profile = << >>
  /\ Started
  /\ rl_cfg = [max |-> 1, window |-> 1]
  /\ RateIdle
  /\ cfg \in [respond_to_dms : BOOLEAN, respond_to_groups : BOOLEAN,
              require_mention : BOOLEAN, operator : {0, 1}]
  /\ MsgIdle
  /\ ch_text = << >> /\ ch_limit = 1
  /\ ChunkIdle
  /\ SendIdle
  /\ PipeIdle
  /\ ExtIdle

NextMsg ==
  \/ \E f \in DmFrames : \E e \in Envs : HandleDm(f, e)
  \/ \E f \in GroupFrames : \E e \in Envs : HandleGroupMessage(f, e)

MsgSpec == InitMsg /\ [][NextMsg]_vars

\* ================================================================ ChatSpec
\* One call of AiAssistClient.chat for every retry_attempts up to MaxRetry.

\* aiassist.py 64-76: the call starts; range(retry_attempts) may be empty
ChatCall ==
  /\ chat.pc = "idle"
  /\ chat' = [chat EXCEPT !.pc = IF chat.n > 0 THEN "request" ELSE "raised"]
  /\ UNCHANGED <<connvars, ratevars, msgvars, chunkvars, sendvars, pipevars, engvars, storevars, loopvars, cutvars>>

\* aiassist.py 77-105: one POST and its answer, up to the return, the raise
\* or the sleep that follows
ChatRequest(o) ==
  /\ chat.pc = "request"
  /\ chat' = [chat EXCEPT !.log = Append(@, o),
                          !.pc = IF AfterAnswer(o, chat.attempt, chat.n) = "return" THEN "returned"
                                 ELSE IF AfterAnswer(o, chat.attempt, chat.n) = "raise" THEN "raised"
                                 ELSE "sleep"]
  /\ UNCHANGED <<connvars, ratevars, msgvars, chunkvars, sendvars, pipevars, engvars, storevars, loopvars, cutvars>>

\* aiassist.py 77, 88-95, 105-107: the sleep ends; the next attempt is made,
\* or the loop is over and "All retry attempts failed" is raised
ChatWake ==
  /\ chat.pc = "sleep"
  /\ chat' = [chat EXCEPT !.attempt = @ + 1,
                          !.pc = IF chat.attempt + 1 < chat.n THEN "request" ELSE "raised"]
  /\ UNCHANGED <<connvars, ratevars, msgvars, chunkvars, sendvars, pipevars, engvars, storevars, loopvars, cutvars>>

InitChat ==
  /\ lim = [conn |-> 0, api |-> 0, disc |-> 0, stop |-> FALSE, fail |-> 0, close |-> 0]
  /\ profile = << >>
  /\ Started
  /\ rl_cfg = [max |-> 1, window |-> 1]
  /\ RateIdle
  /\ cfg = [respond_to_dms |-> TRUE, respond_to_groups |-> TRUE, require_mention |-> TRUE,
            operator |-> 1]
  /\ MsgIdle
  /\ ch_text = << >> /\ ch_limit = 1
  /\ ChunkIdle
  /\ SendIdle
  /\ PipeIdle
  /\ chat \in {NoChat(n) : n \in 0..MaxRetry}
  /\ EngIdle
  /\ StoreIdle
  /\ LoopIdle
  /\ CutIdle

NextChat ==
  \/ ChatCall
  \/ \E o \in Answers : ChatRequest(o)
  \/ ChatWake

ChatSpec == InitChat /\ [][NextChat]_vars

\* ================================================================= EngSpec
\* The _connect_platform tasks of BotEngine, one per platform, each with a
\* handler that starts Disconnected, and BotEngine.stop().

\* variant of engine.py 81-83: the platforms are connected one after the
\* other
Ready_InTurn(p) == \A q \in Plats : q < p => plat[q].pc = "done"

\* engine.py 81-83: every platform has a task of its own
Ready(p) == TRUE

\* engine.py 89-104: the task runs or goes on: `while self._running`, then
\* handler.connect() up to its first request
Attempt(p) ==
  IF eng.running
    THEN [plat[p] EXCEPT !.pc = "get", !.attempt = @ + 1, !.cut = FALSE]
    ELSE [plat[p] EXCEPT !.pc = "done"]

\* engine.py 89-96: the task of platform p starts
PlatBegin(p) ==
  /\ plat[p].pc = "created"
  /\ Ready(p)
  /\ plat' = [plat EXCEPT ![p] = Attempt(p)]
  /\ UNCHANGED <<connvars, ratevars, msgvars, chunkvars, sendvars, pipevars, chat, eng, storevars, loopvars, cutvars>>

\* devnetwork.py 67-117 for a handler without listen task and WebSocket: the
\* identity request, the opening of the WebSocket and the auth exchange
\* succeed one after the other; is_connected is set at auth_success and the
\* listen task is created.  After a disconnect() during the attempt the
\* session is closed and None, so the first two requests cannot succeed
\* (lines 71, 88); an auth_success that had arrived before the WebSocket
\* was closed is still read (line 96), and the errors of the subscriptions
\* are caught (lines 112-113)
ConnectStep(p) ==
  /\ plat[p].pc \in {"get", "ws", "auth"}
  /\ plat[p].cut => plat[p].pc = "auth"
  /\ plat' = [plat EXCEPT ![p] =
                IF plat[p].pc = "get" THEN [@ EXCEPT !.pc = "ws"]
                ELSE IF plat[p].pc = "ws" THEN [@ EXCEPT !.pc = "auth", !.open = TRUE]
                ELSE [@ EXCEPT !.pc = "done", !.connected = TRUE, !.listen = TRUE,
                               !.cut = FALSE]]
  /\ UNCHANGED <<connvars, ratevars, msgvars, chunkvars, sendvars, pipevars, chat, eng, storevars, loopvars, cutvars>>

\* devnetwork.py 74-83, 119-121, engine.py 99-103: the step fails, connect()
\* raises, the task logs and sleeps its delay
ConnectRaise(p) ==
  /\ plat[p].pc \in {"get", "ws", "auth"}
  /\ eng.fails < EngFail \/ plat[p].cut
  /\ plat' = [plat EXCEPT ![p] = [@ EXCEPT !.pc = "sleep", !.slept = Append(@, plat[p].delay)]]
  /\ eng' = [eng EXCEPT !.fails = IF plat[p].cut THEN @ ELSE @ + 1]
  /\ UNCHANGED <<connvars, ratevars, msgvars, chunkvars, sendvars, pipevars, chat, storevars, loopvars, cutvars>>

\* engine.py 103-104, 93: the sleep is over, the delay doubled, the loop
\* condition read again
PlatWake(p) ==
  /\ plat[p].pc = "sleep"
  /\ plat' = [plat EXCEPT ![p] = [Attempt(p) EXCEPT !.delay = NextDelay(plat[p].delay)]]
  /\ UNCHANGED <<connvars, ratevars, msgvars, chunkvars, sendvars, pipevars, chat, eng, storevars, loopvars, cutvars>>

\* engine.py 106-112: stop() clears the flag and calls the first disconnect
EngStop ==
  /\ eng.stop = "no"
  /\ eng' = [eng EXCEPT !.running = FALSE, !.stop = "disconnecting", !.i = 1]
  /\ UNCHANGED <<connvars, ratevars, msgvars, chunkvars, sendvars, pipevars, chat, plat, storevars, loopvars, cutvars>>

\* engine.py 110-115, devnetwork.py 617-630: disconnect() of the next
\* handler clears its flags, closes the WebSocket and the session, and
\* returns or raises in a close; stop() logs and goes on.  A connect() of
\* the handler that is under way is neither awaited nor cancelled
StopDisconnect(raises) ==
  /\ eng.stop = "disconnecting"
  /\ plat' = [plat EXCEPT ![eng.i] =
                [@ EXCEPT !.connected = FALSE, !.listen = FALSE, !.open = FALSE,
                          !.cut = plat[eng.i].pc \in {"get", "ws", "auth"}]]
  /\ eng' = [eng EXCEPT !.called = @ \cup {eng.i},
                        !.raised = IF raises THEN @ \cup {eng.i} ELSE @,
                        !.i = @ + 1,
                        !.stop = IF eng.i = MaxPlats THEN "closing" ELSE "disconnecting"]
  /\ UNCHANGED <<connvars, ratevars, msgvars, chunkvars, sendvars, pipevars, chat, storevars, loopvars, cutvars>>

\* engine.py 117-121: the completion client and the store are closed and
\* stop() returns
StopClose ==
  /\ eng.stop = "closing"
  /\ eng' = [eng EXCEPT !.stop = "returned"]
  /\ UNCHANGED <<connvars, ratevars, msgvars, chunkvars, sendvars, pipevars, chat, plat, storevars, loopvars, cutvars>>

InitEng ==
  /\ lim = [conn |-> 0, api |-> 0, disc |-> 0, stop |-> FALSE, fail |-> 0, close |-> 0]
  /\ profile = << >>
  /\ Started
  /\ rl_cfg = [max |-> 1, window |-> 1]
  /\ RateIdle
  /\ cfg = [respond_to_dms |-> TRUE, respond_to_groups |-> TRUE, require_mention |-> TRUE,
            operator |-> 1]
  /\ MsgIdle
  /\ ch_text = << >> /\ ch_limit = 1
  /\ ChunkIdle
  /\ SendIdle
  /\ PipeIdle
  /\ ExtIdle

NextEng ==
  \/ \E p \in Plats : PlatBegin(p)
  \/ \E p \in Plats : ConnectStep(p)
  \/ \E p \in Plats : ConnectRaise(p)
  \/ \E p \in Plats : PlatWake(p)
  \/ EngStop
  \/ \E raises \in BOOLEAN : StopDisconnect(raises)
  \/ StopClose

EngSpec == InitEng /\ [][NextEng]_vars

\* =============================================================== StoreSpec
\* Calls of MemoryManager.get_or_create_conversation by tasks that share
\* the one aiosqlite connection.  Each awaited statement is a step; the
\* connection executes the statements one at a time in the order they were
\* submitted, and a statement sees the rows the connection has inserted.

\* memory.py 40-47: the first row of the channel in the table, 0 if none;
\* the table has no UNIQUE constraint on (platform, channel_id)
Select(c) ==
  IF \E i \in DOMAIN convs : convs[i].channel = c
    THEN CHOOSE i \in DOMAIN convs :
           /\ convs[i].channel = c
           /\ \A j \in DOMAIN convs : convs[j].channel = c => i <= j
    ELSE 0

\* memory.py 97: str(uuid.uuid4()), an id no row and no other call holds
Uuid4(t) == Len(convs) * MaxTasks + t

\* memory.py 77-85, engine.py 127-130: task t calls for channel c and
\* submits the SELECT
GocCall(t, c) ==
  /\ goc[t].pc = "idle"
  /\ goc' = [goc EXCEPT ![t] = [pc |-> "select", channel |-> c, row |-> 0, id |-> 0]]
  /\ UNCHANGED convs
  /\ UNCHANGED <<connvars, ratevars, msgvars, chunkvars, sendvars, pipevars, chat, engvars, loopvars, cutvars>>

\* memory.py 82-85: the SELECT is executed
GocSelect(t) ==
  /\ goc[t].pc = "select"
  /\ goc' = [goc EXCEPT ![t] = [@ EXCEPT !.pc = "fetch", !.row = Select(goc[t].channel)]]
  /\ UNCHANGED convs
  /\ UNCHANGED <<connvars, ratevars, msgvars, chunkvars, sendvars, pipevars, chat, engvars, loopvars, cutvars>>

\* memory.py 86-105: fetchone(); a row is returned as the conversation,
\* otherwise a conversation with a new id is made and its INSERT submitted
GocFetch(t) ==
  /\ goc[t].pc = "fetch"
  /\ goc' = [goc EXCEPT ![t] =
               IF goc[t].row # 0
                 THEN [@ EXCEPT !.pc = "returned", !.id = convs[goc[t].row].id]
                 ELSE [@ EXCEPT !.pc = "insert", !.id = Uuid4(t)]]
  /\ UNCHANGED convs
  /\ UNCHANGED <<connvars, ratevars, msgvars, chunkvars, sendvars, pipevars, chat, engvars, loopvars, cutvars>>

\* memory.py 102-106: the INSERT is executed, the commit submitted
GocInsert(t) ==
  /\ goc[t].pc = "insert"
  /\ convs' = Append(convs, [id |-> goc[t].id, channel |-> goc[t].channel])
  /\ goc' = [goc EXCEPT ![t] = [@ EXCEPT !.pc = "commit"]]
  /\ UNCHANGED <<connvars, ratevars, msgvars, chunkvars, sendvars, pipevars, chat, engvars, loopvars, cutvars>>

\* memory.py 106-108: the commit is done, the new conversation returned
GocCommit(t) ==
  /\ goc[t].pc = "commit"
  /\ goc' = [goc EXCEPT ![t] = [@ EXCEPT !.pc = "returned"]]
  /\ UNCHANGED convs
  /\ UNCHANGED <<connvars, ratevars, msgvars, chunkvars, sendvars, pipevars, chat, engvars, loopvars, cutvars>>

\* engine.py 127-132: the caller goes on with conversation.id and is free
\* for its next message
GocDone(t) ==
  /\ goc[t].pc = "returned"
  /\ goc' = [goc EXCEPT ![t] = NoGoc]
  /\ UNCHANGED convs
  /\ UNCHANGED <<connvars, ratevars, msgvars, chunkvars, sendvars, pipevars, chat, engvars, loopvars, cutvars>>

InitStore ==
  /\ lim = [conn |-> 0, api |-> 0, disc |-> 0, stop |-> FALSE, fail |-> 0, close |-> 0]
  /\ profile = << >>
  /\ Started
  /\ rl_cfg = [max |-> 1, window |-> 1]
  /\ RateIdle
  /\ cfg = [respond_to_dms |-> TRUE, respond_to_groups |-> TRUE, require_mention |-> TRUE,
            operator |-> 1]
  /\ MsgIdle
  /\ ch_text = << >> /\ ch_limit = 1
  /\ ChunkIdle
  /\ SendIdle
  /\ PipeIdle
  /\ ExtIdle

NextStore ==
  \/ \E t \in Tasks, c \in Channels : GocCall(t, c)
  \/ \E t \in Tasks : GocSelect(t)
  \/ \E t \in Tasks : GocFetch(t)
  \/ \E t \in Tasks : GocInsert(t)
  \/ \E t \in Tasks : GocCommit(t)
  \/ \E t \in Tasks : GocDone(t)

StoreSpec == InitStore /\ [][NextStore]_vars

\* ================================================================ LoopSpec
\* One _listen_loop task with the frames that arrive on its WebSocket while
\* it runs.  A handler is followed through its awaits: the message callback
\* and the sending of the reply for a dm or a group message, the write of
\* the pong for a ping.

\* the types of the frames that arrive
LoopTypes == {"dm", "group_message", "ping", "feed_post"}

\* variant of devnetwork.py 133: the handler is started as a task of its
\* own and the loop reads on
Awaited_Spawned == TRUE

\* devnetwork.py 133: `await self._handle_ws_message(data)`, the loop goes
\* on when the handler has finished
Awaited == lsn.hs = {}

\* devnetwork.py 186-194: the first await of the handler of a frame, "none"
\* for a frame that is handled without one
FirstStep(type) ==
  IF type \in {"dm", "group_message"} THEN "callback"
  ELSE IF type = "ping" THEN "pong"
  ELSE "none"

\* the service writes a frame to the WebSocket
FrameArrives(type) ==
  /\ lsn.pc = "recv"
  /\ lsn.seen < MaxInbound
  /\ lsn' = [lsn EXCEPT !.seen = @ + 1,
                        !.queue = Append(@, [n |-> lsn.seen + 1, type |-> type]),
                        !.held = IF lsn.hs # {} THEN @ \cup {lsn.seen + 1} ELSE @]
  /\ UNCHANGED <<connvars, ratevars, msgvars, chunkvars, sendvars, pipevars, chat, engvars, storevars, cutvars>>

\* devnetwork.py 125-133, 182-194: receive() returns the next frame and
\* _handle_ws_message runs up to its first await
LoopReceive ==
  /\ lsn.pc = "recv"
  /\ lsn.queue # << >>
  /\ Awaited
  /\ LET f == Head(lsn.queue) IN
       lsn' = [lsn EXCEPT !.queue = Tail(@), !.got = f.n,
                          !.hs = IF FirstStep(f.type) = "none" THEN @
                                 ELSE @ \cup {[n |-> f.n, type |-> f.type,
                                               step |-> FirstStep(f.type)]}]
  /\ UNCHANGED <<connvars, ratevars, msgvars, chunkvars, sendvars, pipevars, chat, engvars, storevars, cutvars>>

\* devnetwork.py 213-224, 296-311: the message callback returns; with a
\* reply the handler goes on to send it, without one it is finished
CallbackReturns(h, reply) ==
  /\ h \in lsn.hs /\ h.step = "callback"
  /\ lsn' = [lsn EXCEPT !.hs = IF reply THEN (@ \ {h}) \cup {[h EXCEPT !.step = "send"]}
                                        ELSE @ \ {h}]
  /\ UNCHANGED <<connvars, ratevars, msgvars, chunkvars, sendvars, pipevars, chat, engvars, storevars, cutvars>>

\* devnetwork.py 194, 224, 307: the reply or the pong is written and the
\* handler is finished
ReplySent(h) ==
  /\ h \in lsn.hs /\ h.step \in {"send", "pong"}
  /\ lsn' = [lsn EXCEPT !.hs = @ \ {h}, !.out = Append(@, [n |-> h.n, type |-> h.type])]
  /\ UNCHANGED <<connvars, ratevars, msgvars, chunkvars, sendvars, pipevars, chat, engvars, storevars, cutvars>>

\* devnetwork.py 146-148: an exception leaves the handler and ends the loop
HandlerRaises(h) ==
  /\ h \in lsn.hs
  /\ lsn.pc = "recv"
  /\ lsn' = [lsn EXCEPT !.hs = @ \ {h}, !.pc = "done"]
  /\ UNCHANGED <<connvars, ratevars, msgvars, chunkvars, sendvars, pipevars, chat, engvars, storevars, cutvars>>

InitLoop ==
  /\ lim = [conn |-> 0, api |-> 0, disc |-> 0, stop |-> FALSE, fail |-> 0, close |-> 0]
  /\ profile = << >>
  /\ Started
  /\ rl_cfg = [max |-> 1, window |-> 1]
  /\ RateIdle
  /\ cfg = [respond_to_dms |-> TRUE, respond_to_groups |-> TRUE, require_mention |-> TRUE,
            operator |-> 1]
  /\ MsgIdle
  /\ ch_text = << >> /\ ch_limit = 1
  /\ ChunkIdle
  /\ SendIdle
  /\ PipeIdle
  /\ ExtIdle

NextLoop ==
  \/ \E type \in LoopTypes : FrameArrives(type)
  \/ LoopReceive
  \/ \E h \in lsn.hs : \E reply \in BOOLEAN : CallbackReturns(h, reply)
  \/ \E h \in lsn.hs : ReplySent(h)
  \/ \E h \in lsn.hs : HandlerRaises(h)

LoopSpec == InitLoop /\ [][NextLoop]_vars

\* ================================================================= NetSpec
\* The frames of the listen loop as _handle_ws_message routes them, with the
\* answers of the network varied.

\* the frames: the type is "untyped" for a frame without type
NetBodies ==
  {m \o b : m \in {<< >>, <<MentionAtom, Space>>},
            b \in {<<Word("foo", FALSE)>>, Cmd("groups"),
                   Cmd("knock") \o <<Space, Word("x", FALSE)>>}}
WsFrames ==
  [type : {"dm", "group_message"}, sender : Users \cup {BotId}, group : {1}, content : NetBodies]
    \cup [type : {"feed_post", "ping", "other", "untyped"}, sender : {1}, group : {1},
          content : {Cmd("groups")}]

\* Line 194: await self._ws.send_json({"action": "pong"}); the write
\* succeeds or raises
Pong(f, written) ==
  /\ ev.n < MaxFrames
  /\ ev' = [NoEvent EXCEPT !.n = ev.n + 1, !.type = f.type, !.kind = "pong", !.pong = 1,
                           !.raised = ~written]
  /\ UNCHANGED <<connvars, extvars, sendvars, pipevars, chunkvars, ratevars, cfg>>

\* Lines 191-192 and the missing else: the frame is dropped
Ignored(f) ==
  /\ ev.n < MaxFrames
  /\ ev' = [NoEvent EXCEPT !.n = ev.n + 1, !.type = f.type, !.kind = "ignored"]
  /\ UNCHANGED <<connvars, extvars, sendvars, pipevars, chunkvars, ratevars, cfg>>

\* Lines 182-194: _handle_ws_message(data)
HandleWsMessage(f, e) ==
  \/ Route(f.type) = "dm" /\ HandleDm(f, e)
  \/ Route(f.type) = "group" /\ HandleGroupMessage(f, e)
  \/ Route(f.type) = "pong" /\ \E written \in BOOLEAN : Pong(f, written)
  \/ Route(f.type) = "ignored" /\ Ignored(f)

InitNet ==
  /\ lim = [conn |-> 0, api |-> 0, disc |-> 0, stop |-> FALSE, fail |-> 0, close |-> 0]
  /\ profile = << >>
  /\ Started
  /\ rl_cfg = [max |-> 1, window |-> 1]
  /\ RateIdle
  /\ cfg = [respond_to_dms |-> TRUE, respond_to_groups |-> TRUE, require_mention |-> TRUE,
            operator |-> 1]
  /\ MsgIdle
  /\ ch_text = << >> /\ ch_limit = 1
  /\ ChunkIdle
  /\ SendIdle
  /\ PipeIdle
  /\ ExtIdle

NextNet == \E f \in WsFrames : \E e \in NetEnvs : HandleWsMessage(f, e)

NetSpec == InitNet /\ [][NextNet]_vars

\* =============================================================== ChunkSpec
\* The three message splitters applied to one text and one limit.
RECURSIVE Texts(_)
Texts(n) ==
  IF n = 0 THEN {<< >>}
  ELSE Texts(n - 1) \cup {Append(t, c) : t \in {x \in Texts(n - 1) : Len(x) = n - 1}, c \in Chars}

\* discord.py 306-329
ChunkDiscord ==
  /\ "discord" \notin ch_ran
  /\ ch_ran' = ch_ran \cup {"discord"}
  /\ ch_out' = [ch_out EXCEPT !.discord = chunk_message(ch_text, ch_limit)]
  /\ UNCHANGED <<connvars, extvars, sendvars, pipevars, ratevars, msgvars, ch_text, ch_limit, ch_todo>>

\* telegram.py 507-527
ChunkTelegram ==
  /\ "telegram" \notin ch_ran
  /\ ch_ran' = ch_ran \cup {"telegram"}
  /\ ch_out' = [ch_out EXCEPT !.telegram = chunk_message(ch_text, ch_limit)]
  /\ UNCHANGED <<connvars, extvars, sendvars, pipevars, ratevars, msgvars, ch_text, ch_limit, ch_todo>>

\* devnetwork.py 501-528: send_dm is called; it transmits its first chunk
SendDm ==
  /\ "dm" \notin ch_ran
  /\ ch_ran' = ch_ran \cup {"dm"}
  /\ LET chunks == send_dm_chunks(ch_text, ch_limit)
     IN  IF chunks = << >>
           THEN UNCHANGED <<ch_out, ch_todo>>
           ELSE /\ ch_out' = [ch_out EXCEPT !.dm = <<Head(chunks)>>]
                /\ ch_todo' = Tail(chunks)
  /\ UNCHANGED <<connvars, extvars, sendvars, pipevars, ratevars, msgvars, ch_text, ch_limit>>

\* devnetwork.py 527-530: after the pause, the next chunk is transmitted
SendDmChunk ==
  /\ ch_todo # << >>
  /\ ch_out' = [ch_out EXCEPT !.dm = Append(@, Head(ch_todo))]
  /\ ch_todo' = Tail(ch_todo)
  /\ UNCHANGED <<connvars, extvars, sendvars, pipevars, ratevars, msgvars, ch_text, ch_limit, ch_ran>>

InitChunk ==
  /\ lim = [conn |-> 0, api |-> 0, disc |-> 0, stop |-> FALSE, fail |-> 0, close |-> 0]
  /\ profile = << >>
  /\ Started
  /\ rl_cfg = [max |-> 1, window |-> 1]
  /\ RateIdle
  /\ cfg = [respond_to_dms |-> TRUE, respond_to_groups |-> TRUE, require_mention |-> TRUE,
            operator |-> 1]
  /\ ev = NoEvent
  /\ ch_text \in Texts(MaxText)
  /\ ch_limit \in 1..MaxLimit
  /\ ChunkIdle
  /\ SendIdle
  /\ PipeIdle
  /\ ExtIdle

NextChunk ==
  \/ ChunkDiscord
  \/ ChunkTelegram
  \/ SendDm
  \/ SendDmChunk

ChunkSpec == InitChunk /\ [][NextChunk]_vars

\* ================================================================= CutSpec
\* One call of _chunk_message (discord.py 306-329, telegram.py 507-527) on
\* ch_text with max_length ch_limit, one iteration of its loop per step.

\* variant of discord.py 327: the rest is not stripped
Rest_NotStripped(t, m) == SubSeq(t, SplitAt(t, m) + 1, Len(t))

\* discord.py 327: text = text[split_at:].lstrip()
Rest(t, m) == LStripWs(SubSeq(t, SplitAt(t, m) + 1, Len(t)))

\* discord.py 308-312: the call; a short text is returned at once
CutCall ==
  /\ cut.pc = "idle"
  /\ cut' = IF Len(ch_text) <= ch_limit
              THEN [cut EXCEPT !.pc = "returned", !.chunks = <<ch_text>>]
              ELSE [cut EXCEPT !.pc = "loop", !.text = ch_text]
  /\ UNCHANGED <<connvars, ratevars, msgvars, chunkvars, sendvars, pipevars, chat, engvars, storevars, loopvars>>

\* discord.py 312-327: one iteration of `while text`
CutIterate ==
  /\ cut.pc = "loop"
  /\ cut.text # << >>
  /\ cut' = IF Len(cut.text) <= ch_limit
              THEN [cut EXCEPT !.pc = "returned", !.chunks = Append(@, cut.text)]
              ELSE [cut EXCEPT !.chunks = Append(@, SubSeq(cut.text, 1, SplitAt(cut.text, ch_limit))),
                               !.text = Rest(cut.text, ch_limit),
                               !.n = @ + 1]
  /\ UNCHANGED <<connvars, ratevars, msgvars, chunkvars, sendvars, pipevars, chat, engvars, storevars, loopvars>>

\* discord.py 312, 329: the text is used up, the chunks are returned
CutReturn ==
  /\ cut.pc = "loop"
  /\ cut.text = << >>
  /\ cut' = [cut EXCEPT !.pc = "returned"]
  /\ UNCHANGED <<connvars, ratevars, msgvars, chunkvars, sendvars, pipevars, chat, engvars, storevars, loopvars>>

InitCut ==
  /\ lim = [conn |-> 0, api |-> 0, disc |-> 0, stop |-> FALSE, fail |-> 0, close |-> 0]
  /\ profile = << >>
  /\ Started
  /\ rl_cfg = [max |-> 1, window |-> 1]
  /\ RateIdle
  /\ cfg = [respond_to_dms |-> TRUE, respond_to_groups |-> TRUE, require_mention |-> TRUE,
            operator |-> 1]
  /\ ev = NoEvent
  /\ ch_text \in Texts(MaxText)
  /\ ch_limit \in 1..MaxLimit
  /\ ChunkIdle
  /\ SendIdle
  /\ PipeIdle
  /\ ExtIdle

NextCut ==
  \/ CutCall
  \/ CutIterate
  \/ CutReturn

\* the call is made and the function runs on: it is plain synchronous code
CutSpec == InitCut /\ [][NextCut]_vars /\ WF_vars(NextCut)

\* ================================================================ SendSpec
\* A reply of the listen task and a send through BotEngine.send_message,
\* to the same recipient.

\* devnetwork.py 234, 254: the handler of a frame calls send_dm with a reply
ListenReply(content) ==
  /\ snd["listen"].pc = "idle"
  /\ StartSend("listen", "dm", content)
  /\ UNCHANGED <<connvars, extvars, pipevars, ratevars, msgvars, chunkvars, wire>>

\* engine.py 359-369, api.py 193-202: send_message is called through the
\* API; it returns False at once when the handler is not connected
EngineSend(connected, kind, content) ==
  /\ snd["api"].pc = "idle"
  /\ IF connected
       THEN StartSend("api", kind, content)
       ELSE snd' = [snd EXCEPT !["api"] = [NoSend EXCEPT !.pc = "done", !.res = "False"]]
  /\ UNCHANGED <<connvars, extvars, pipevars, ratevars, msgvars, chunkvars, wire>>

\* devnetwork.py 527-550, 552-572: the next request of a send is made and
\* answered.  A status other than 200, 201 and an aiohttp.ClientError are
\* logged (send_group_message returns False, which send_message drops);
\* another exception leaves the send.
Transmit(t, o) ==
  /\ snd[t].pc = "sending"
  /\ wire' = Append(wire, [task |-> t, chunk |-> Head(snd[t].todo), outcome |-> o])
  /\ snd' = [snd EXCEPT ![t] =
               IF o = "fault"
                 THEN [@ EXCEPT !.pc = "done", !.todo = << >>,
                                !.res = IF t = "api" THEN "False" ELSE "raised"]
               ELSE IF Len(@.todo) = 1
                 THEN [@ EXCEPT !.pc = "done", !.todo = << >>,
                                !.res = SendResult(t, \E i \in DOMAIN wire' :
                                                        /\ wire'[i].task = t
                                                        /\ wire'[i].outcome # "ok")]
               ELSE [@ EXCEPT !.todo = Tail(@)]]
  /\ UNCHANGED <<connvars, extvars, pipevars, ratevars, msgvars, chunkvars>>

InitSend ==
  /\ lim = [conn |-> 0, api |-> 0, disc |-> 0, stop |-> FALSE, fail |-> 0, close |-> 0]
  /\ profile = << >>
  /\ Started
  /\ rl_cfg = [max |-> 1, window |-> 1]
  /\ RateIdle
  /\ cfg = [respond_to_dms |-> TRUE, respond_to_groups |-> TRUE, require_mention |-> TRUE,
            operator |-> 1]
  /\ ev = NoEvent
  /\ ch_text = << >> /\ ch_limit = 1
  /\ ChunkIdle
  /\ SendIdle
  /\ PipeIdle
  /\ ExtIdle

NextSend ==
  \/ \E c \in Texts(SendText) : ListenReply(c)
  \/ \E up \in BOOLEAN : \E k \in {"dm", "group"} : \E c \in Texts(SendText) : EngineSend(up, k, c)
  \/ \E t \in Senders : \E o \in Outcomes : Transmit(t, o)

SendSpec == InitSend /\ [][NextSend]_vars

\* ================================================================ PipeSpec
\* A conversational DM from its admission to the reply: _handle_dm 211-256
\* with BotEngine._handle_message as the message callback (engine.py 74).
\* Every await of the two functions ends a step.

\* the content of the DMs
DmContent == <<"a">>

\* devnetwork.py 211-246: the rate limiter is asked; an admitted DM is
\* normalized and handed to the callback
PipeAdmit(u) ==
  /\ pipe.pc \in {"idle", "done"}
  /\ pipe.n < PipeFrames
  /\ check_rate_limit(u)
  /\ plog' = IF Admits(Key(u)) THEN <<Call("build", DmContent, u)>> ELSE << >>
  /\ pipe' = IF Admits(Key(u))
               THEN [NoPipe EXCEPT !.pc = "built", !.n = pipe.n + 1, !.sender = u,
                                   !.channel = DmChannel(u), !.is_dm = TRUE]
               ELSE [NoPipe EXCEPT !.pc = "done", !.n = pipe.n + 1, !.sender = u]
  /\ UNCHANGED <<connvars, extvars, sendvars, msgvars, chunkvars, now, rl_cfg, hist, stats>>

\* an exception leaves _handle_message and is caught at devnetwork.py 255
Caught == pipe' = [pipe EXCEPT !.pc = "done"]

\* engine.py 127-130: memory.get_or_create_conversation(platform, channel_id)
PipeConversation(ok) ==
  /\ pipe.pc = "built"
  /\ plog' = Append(plog, Call("conversation", << >>, pipe.channel.id))
  /\ IF ok THEN pipe' = [pipe EXCEPT !.pc = "conversation", !.conv = pipe.channel]
           ELSE Caught
  /\ UNCHANGED <<connvars, extvars, sendvars, ratevars, msgvars, chunkvars, hist, stats>>

\* engine.py 132-138: memory.add_message(conversation.id, USER, content)
PipeAddUser(ok) ==
  /\ pipe.pc = "conversation"
  /\ plog' = Append(plog, Call("add_user", DmContent, pipe.conv.id))
  /\ IF ok
       THEN /\ hist' = [hist EXCEPT ![pipe.conv.id] = Append(@, [role |-> "user", text |-> DmContent])]
            /\ pipe' = [pipe EXCEPT !.pc = "stored"]
       ELSE /\ Caught
            /\ UNCHANGED hist
  /\ UNCHANGED <<connvars, extvars, sendvars, ratevars, msgvars, chunkvars, stats>>

\* engine.py 140, 160-180: _build_context reads the memory and the history
PipeContext(ok) ==
  /\ pipe.pc = "stored"
  /\ plog' = Append(plog, Call("context", << >>, pipe.conv.id))
  /\ IF ok THEN pipe' = [pipe EXCEPT !.pc = "context"] ELSE Caught
  /\ UNCHANGED <<connvars, extvars, sendvars, ratevars, msgvars, chunkvars, hist, stats>>

\* engine.py 142-143, 155-157: aiassist.chat(context) returns the reply or
\* raises; the exception is replaced by the apology
PipeChat(ok, r) ==
  /\ pipe.pc = "context"
  /\ plog' = Append(plog, Call("chat", << >>, 0))
  /\ pipe' = IF ok THEN [pipe EXCEPT !.pc = "chatted", !.reply = r, !.from = "completion"]
                   ELSE ChatFailed(pipe)
  /\ UNCHANGED <<connvars, extvars, sendvars, ratevars, msgvars, chunkvars, hist, stats>>

\* engine.py 145-153, 155-157: memory.add_message(conversation.id,
\* ASSISTANT, response), inside the try of the completion
PipeAddAssistant(ok) ==
  /\ pipe.pc = "chatted"
  /\ plog' = Append(plog, Call("add_assistant", pipe.reply, pipe.conv.id))
  /\ IF ok
       THEN /\ hist' = [hist EXCEPT ![pipe.conv.id] = Append(@, [role |-> "assistant", text |-> pipe.reply])]
            /\ stats' = Counted(stats, pipe.n)
            /\ pipe' = [pipe EXCEPT !.pc = "returned"]
       ELSE /\ pipe' = ChatFailed(pipe)
            /\ UNCHANGED <<hist, stats>>
  /\ UNCHANGED <<connvars, extvars, sendvars, ratevars, msgvars, chunkvars>>

\* devnetwork.py 251-254, 501-526: the callback has returned; a response
\* that is not empty is cut into send_dm's chunks
PipeRespond ==
  /\ pipe.pc = "returned"
  /\ pipe' = [pipe EXCEPT !.pc = IF ReplyChunks(pipe.reply) = << >> THEN "done" ELSE "sending",
                          !.todo = ReplyChunks(pipe.reply)]
  /\ UNCHANGED <<connvars, extvars, sendvars, ratevars, msgvars, chunkvars, plog, hist, stats>>

\* devnetwork.py 527-550: one chunk is posted to the sender
PipeSendChunk ==
  /\ pipe.pc = "sending"
  /\ plog' = Append(plog, Call("send", Head(pipe.todo), pipe.sender))
  /\ pipe' = [pipe EXCEPT !.todo = Tail(@), !.pc = IF Len(pipe.todo) = 1 THEN "done" ELSE "sending"]
  /\ UNCHANGED <<connvars, extvars, sendvars, ratevars, msgvars, chunkvars, hist, stats>>

InitPipe ==
  /\ lim = [conn |-> 0, api |-> 0, disc |-> 0, stop |-> FALSE, fail |-> 0, close |-> 0]
  /\ profile = << >>
  /\ Started
  /\ rl_cfg = [max |-> 1, window |-> 1]
  /\ RateIdle
  /\ cfg = [respond_to_dms |-> TRUE, respond_to_groups |-> TRUE, require_mention |-> TRUE,
            operator |-> 1]
  /\ ev = NoEvent
  /\ ch_text = << >> /\ ch_limit = 1
  /\ ChunkIdle
  /\ SendIdle
  /\ PipeIdle
  /\ ExtIdle

NextPipe ==
  \/ \E u \in Users : PipeAdmit(u)
  \/ \E ok \in BOOLEAN : PipeConversation(ok)
  \/ \E ok \in BOOLEAN : PipeAddUser(ok)
  \/ \E ok \in BOOLEAN : PipeContext(ok)
  \/ \E ok \in BOOLEAN : \E r \in Texts(PipeText) : PipeChat(ok, r)
  \/ \E ok \in BOOLEAN : PipeAddAssistant(ok)
  \/ PipeRespond
  \/ PipeSendChunk

PipeSpec == InitPipe /\ [][NextPipe]_vars

\* ------------------------------------------------------- claims, RateSpec
\* a step that is a call of check_rate_limit
IsCall == rl_call'.n # rl_call.n
\* the admissions of identity u that are less than window_seconds old at time t
Recent(log, t) == {i \in DOMAIN log : log[i] <= t /\ t - log[i] < rl_cfg.window}

\* C12: a call for an identity returns True exactly when fewer than
\* max_messages of the identity's admissions are less than window_seconds
\* old, so that a full window denies every call until its oldest admission
\* is window_seconds old and the call after that is admitted; and no
\* trailing window of any identity ever holds more than max_messages
\* admissions.
C12_SlidingWindow ==
  [][IsCall =>
       /\ rl_call'.res <=>
            Cardinality(Recent(admitted[rl_call'.user], now)) < rl_cfg.max
       /\ \A u \in Users : \A t \in 0..now :
            Cardinality(Recent(admitted'[u], t)) <= rl_cfg.max]_vars
\* an identity filled its window at time 0, was denied, and was admitted
\* again when its oldest admission was exactly window_seconds old
C12_Witness ==
  \E u \in Users :
    /\ rl_call.user = u /\ rl_call.res
    /\ Len(admitted[u]) = rl_cfg.max + 1
    /\ admitted[u][1] = 0 /\ admitted[u][rl_cfg.max] = 0
    /\ admitted[u][rl_cfg.max + 1] = rl_cfg.window
    /\ \A v \in Users \ {u} : admitted[v] = << >>
    /\ rl_call.n > rl_cfg.max + 1

\* C13: a call for one identity leaves the window of every other identity
\* as it was, and with it the answer a call for that identity would get.
C13_OtherIdentitiesUntouched ==
  [][IsCall =>
       \A b \in Users \ {rl_call'.user} :
         /\ Window(b)' = Window(b)
         /\ Admits(b)' = Admits(b)]_vars
\* an identity with a full window was denied while another identity, whose
\* window was full as well, is still denied
C13_Witness ==
  \E a \in Users : \E b \in Users \ {a} :
    /\ rl_call.user = a /\ ~rl_call.res
    /\ Len(Window(b)) = rl_cfg.max /\ ~Admits(b)
    /\ Len(Window(a)) = rl_cfg.max

\* C14: a call that returns False adds no timestamp to the identity's window
\* and no admission; a call that returns True adds exactly the current time,
\* once, to the timestamps that were less than window_seconds old.
C14_DeniedRecordsNothing ==
  [][\A u \in Users :
       (IsCall /\ rl_call'.user = u) =>
         LET kept == SelectSeq(Window(u), LAMBDA t : now - t < rl_cfg.window)
         IN  IF rl_call'.res
               THEN /\ Window(u)' = Append(kept, now)
                    /\ admitted'[u] = Append(admitted[u], now)
               ELSE /\ Window(u)' = kept
                    /\ admitted' = admitted]_vars
\* with max_messages 1 an identity admitted at time 0 was denied at least
\* twice and then admitted exactly window_seconds later
C14_Witness ==
  \E u \in Users :
    /\ rl_cfg.max = 1
    /\ admitted[u] = <<0, rl_cfg.window>>
    /\ rl_call.user = u /\ rl_call.res /\ rl_call.n >= 4
    /\ \A v \in Users \ {u} : admitted[v] = << >>

\* C15: no identity's window holds a timestamp that is window_seconds old
\* or older.
C15_NoStaleTimestamp ==
  \A u \in DOMAIN rate_limits :
    \A i \in DOMAIN rate_limits[u] : now - rate_limits[u][i] < rl_cfg.window
\* the clock is far past an identity's only admission and the timestamp is
\* still stored
C15_StaleKept ==
  \E u \in DOMAIN rate_limits :
    /\ rate_limits[u] = <<0>>
    /\ now = MaxTime

\* -------------------------------------------------------- claims, MsgSpec
\* the last frame passed the rate limiter and its routed text starts with "/"
SlashEvent == ev.rl = "admitted" /\ StartsWithSlash(ev.text)
\* the first token of the routed text, in lower case
FirstToken == Lower(Split1(ev.text)[1])
Registered == {Cmd(c) : c \in CommandNames}
Privileged == {Cmd("groups"), Cmd("knock")}
\* the sender of the last frame is the operator named by the bot identity
FromOperator == cfg.operator # 0 /\ ev.sender = cfg.operator
\* the channel the last frame belongs to, as the callbacks are given it
EventChannel ==
  IF ev.kind = "dm" THEN [prefix |-> "dm:", id |-> ev.sender] ELSE [prefix |-> "", id |-> ev.group]
\* the reply of the given kind went back where the last frame came from
Replied(kind) ==
  \E i \in DOMAIN ev.sent :
    ev.sent[i] = [dm |-> ev.kind = "dm",
                  to |-> IF ev.kind = "dm" THEN ev.sender ELSE ev.group,
                  text |-> kind]

\* C16: a DM or group message that starts with "/" and whose first token is
\* no registered command is given to the message callback, once, as
\* conversational text of its channel.
C16_UnknownIsConversation ==
  (SlashEvent /\ FirstToken \notin Registered) =>
    ev.msg_cb = <<[channel |-> EventChannel, text |-> ev.text]>>

\* C17: /groups or /knock from a sender that is not the operator issues no
\* group-discovery request and no application to a group.
C17_NoSideEffect ==
  (SlashEvent /\ FirstToken \in Privileged /\ ~FromOperator) =>
    ev.discover = 0 /\ ev.apply = 0
\* a /groups without sender id was served when the bot identity names no
\* operator
C17_ServedWithoutOperator ==
  /\ SlashEvent /\ FirstToken = Cmd("groups")
  /\ cfg.operator = 0 /\ ev.sender = 0
  /\ ev.discover = 1 /\ Replied("groups")

\* C18: /groups or /knock, with or without argument, from an identified
\* sender that is not the operator is answered with a refusal sent back to
\* where it came from.
C18_RefusalSent ==
  (SlashEvent /\ FirstToken \in Privileged /\ ~FromOperator /\ ev.sender # 0) =>
    Replied("refusal")
\* a /knock without argument from a non-operator got no reply at all
C18_KnockIgnored ==
  /\ SlashEvent /\ FirstToken = Cmd("knock") /\ Len(Split1(ev.text)) = 1
  /\ ~FromOperator /\ ev.sender # 0
  /\ ev.sent = << >>

C20_ChunksFit ==
  /\ \A i \in DOMAIN ch_out.discord : Len(ch_out.discord[i]) <= ch_limit
  /\ \A i \in DOMAIN ch_out.telegram : Len(ch_out.telegram[i]) <= ch_limit
  /\ \A i \in DOMAIN ch_out.dm : Len(ch_out.dm[i]) <= ch_limit
  /\ \A i \in DOMAIN ch_todo : Len(ch_todo[i]) <= ch_limit
\* a text longer than the limit was split by all three functions, each
\* into several chunks, one of them as long as the limit; send_dm has
\* transmitted all of its chunks
C20_Witness ==
  /\ ch_ran = {"discord", "telegram", "dm"} /\ ch_todo = << >>
  /\ Len(ch_text) > ch_limit /\ ch_limit > 1
  /\ Len(ch_out.discord) >= 2 /\ Len(ch_out.telegram) >= 2 /\ Len(ch_out.dm) >= 2
  /\ \E i \in DOMAIN ch_out.discord : Len(ch_out.discord[i]) = ch_limit
  /\ \E i \in DOMAIN ch_out.dm : Len(ch_out.dm[i]) = ch_limit

\* all the chunks produced so far, by whichever function
AllChunks == {ch_out.discord, ch_out.telegram, ch_out.dm, ch_todo}
\* send_dm was called and has transmitted all its chunks
DmDone == "dm" \in ch_ran /\ ch_todo = << >>
\* the chunks joined in order, sep[i] put after chunk i
RECURSIVE Join(_, _, _)
Join(chunks, sep, i) ==
  IF i > Len(chunks) THEN << >>
  ELSE IF i = Len(chunks) THEN chunks[i]
  ELSE chunks[i] \o sep[i] \o Join(chunks, sep, i + 1)
\* some choice of nothing, one blank or one newline at each chunk boundary
\* joins the chunks to the text
Rejoins(chunks, text) ==
  \E sep \in [1..(Len(chunks) - 1) -> {<< >>, <<" ">>, <<"\n">>}] :
    Join(chunks, sep, 1) = text

\* C21: for a non-empty text, no chunk that a function returned or
\* transmitted is empty.
C21_NoEmptyChunk ==
  Len(ch_text) > 0 =>
    \A out \in AllChunks : \A i \in DOMAIN out : out[i] # << >>
\* _chunk_message returned an empty first chunk for a text that starts
\* with a newline
C21_EmptyFirstChunk ==
  /\ "discord" \in ch_ran /\ Len(ch_text) > ch_limit
  /\ ch_text[1] = "\n"
  /\ ch_out.discord[1] = << >>

\* C22: the chunks a function produced, joined in order with at most the
\* one blank or newline of the split at each boundary, are the text.
C22_Rejoins ==
  /\ "discord" \in ch_ran => Rejoins(ch_out.discord, ch_text)
  /\ "telegram" \in ch_ran => Rejoins(ch_out.telegram, ch_text)
  /\ DmDone => Rejoins(ch_out.dm, ch_text)
\* send_dm has transmitted chunks for a text with a blank line, and no
\* way of joining them gives the text back
C22_DmDropped ==
  /\ DmDone /\ ch_out.dm # << >>
  /\ ~Rejoins(ch_out.dm, ch_text)

\* C23: for a text that is not longer than the limit, each function that
\* was called produced exactly one chunk, the text itself.
C23_ShortTextOneChunk ==
  Len(ch_text) <= ch_limit =>
    /\ "discord" \in ch_ran => ch_out.discord = <<ch_text>>
    /\ "telegram" \in ch_ran => ch_out.telegram = <<ch_text>>
    /\ "dm" \in ch_ran => ch_out.dm = <<ch_text>> /\ ch_todo = << >>
\* a text exactly as long as the limit, with a blank and a newline in it,
\* went through all three functions unchanged
C23_Witness ==
  /\ ch_ran = {"discord", "telegram", "dm"}
  /\ Len(ch_text) = ch_limit /\ ch_limit = MaxLimit
  /\ \E i \in DOMAIN ch_text : ch_text[i] = " "
  /\ \E i \in DOMAIN ch_text : ch_text[i] = "\n"
  /\ ch_out.discord = <<ch_text>> /\ ch_out.dm = <<ch_text>>

\* ------------------------------------------------------- claims, SendSpec
\* the requests of task t on the wire
Of(t) == {i \in DOMAIN wire : wire[i].task = t}

\* C24: when the listen task and the engine both send a DM, the requests of
\* one message are made one after the other with no request of the other
\* message between them.
C24_MessagesAtomic ==
  snd["api"].kind = "dm" =>
    \A i \in DOMAIN wire : \A k \in DOMAIN wire :
      (i < k /\ wire[i].task = wire[k].task) =>
        \A j \in i..k : wire[j].task = wire[i].task
\* both sends have ended, every request was accepted, and the two chunks of
\* the reply are separated by the API's message
C24_Interleaved ==
  /\ snd["listen"].pc = "done" /\ snd["api"].pc = "done"
  /\ snd["listen"].kind = "dm" /\ snd["api"].kind = "dm"
  /\ \A i \in DOMAIN wire : wire[i].outcome = "ok"
  /\ Len(wire) = 3
  /\ wire[1].task = "listen" /\ wire[2].task = "api" /\ wire[3].task = "listen"

\* C26: BotEngine.send_message returns True only if every request of the
\* message was accepted.
C26_FailureReported ==
  snd["api"].res = "True" =>
    \A i \in Of("api") : wire[i].outcome = "ok"
\* the only request of a send through the engine was rejected and the
\* result is True
C26_RejectedAsSuccess ==
  /\ snd["api"].res = "True" /\ snd["api"].kind = "group"
  /\ Of("api") # {}
  /\ \A i \in Of("api") : wire[i].outcome = "rejected"

\* ------------------------------------------------------- claims, PipeSpec
\* the calls of one kind in the log of the current DM
At(step) == {i \in DOMAIN plog : plog[i].step = step}
\* every call of kind a is made before every call of kind b
Precedes(a, b) == \A i \in At(a) : \A j \in At(b) : i < j
\* the callback has returned a text to _handle_dm
HasResponse == pipe.from # "none"
\* an admitted DM has been handled to the end
Handled == pipe.pc = "done" /\ pipe.is_dm

\* C25 as stated: every admitted conversational DM goes through all the
\* steps in order (message built for "dm:<sender>", conversation, user
\* message stored, completion, reply stored, reply sent), and the reply is
\* sent exactly once, in one chunk when it is not longer than the limit.
C25_AllStepsInOrder ==
  Handled =>
    /\ pipe.channel = DmChannel(pipe.sender)
    /\ \A st \in {"build", "conversation", "add_user", "chat", "add_assistant"} :
         Cardinality(At(st)) = 1
    /\ Precedes("build", "conversation") /\ Precedes("conversation", "add_user")
    /\ Precedes("add_user", "chat") /\ Precedes("chat", "add_assistant")
    /\ Precedes("add_assistant", "send")
    /\ At("send") # {}
    /\ \A i \in At("send") : plog[i].to = pipe.sender
    /\ Len(pipe.reply) <= PipeLimit =>
         \E i \in At("send") : At("send") = {i} /\ plog[i].text = pipe.reply

\* the storing of the user message raised: the DM has been handled to the
\* end, the completion was never called and nothing was sent to the sender
C25_SilentDrop ==
  /\ Handled /\ ~HasResponse
  /\ At("add_user") # {} /\ At("chat") = {} /\ At("send") = {}
  /\ hist[pipe.sender] = << >>

\* -------------------------------------------------------- claims, NetSpec
\* the last frame was a group message given to the message callback
Conversational == ev.kind = "group" /\ ev.rl = "admitted" /\ ev.msg_cb # << >>
\* handling a frame recorded as e called no callback, ran no command, sent
\* nothing, issued no request and did not ask the rate limiter
Dropped(e) ==
  /\ e.rl = "skipped"
  /\ e.msg_cb = << >> /\ e.clear_cb = << >> /\ e.sent = << >>
  /\ e.discover = 0 /\ e.apply = 0
\* the texts that report a failed request of /groups and /knock
ErrorTexts == {"groups_failed", "groups_error", "search_failed", "knock_error", "apply_failed"}

\* C27: after a conversational group reply the connector applies to the
\* group only when the send was rejected with 403.
C27_AppliesOn403Only ==
  (Conversational /\ ev.apply > 0) => ev.send_res = "403"
\* the reply to a group message could not be sent because of a transport
\* error, and the connector applied to the group
C27_AppliedAfterTransportError ==
  /\ Conversational /\ ev.sent # << >>
  /\ ev.send_res = "error" /\ ev.apply = 1

\* C28: handling a ping frame writes one pong to the channel and does
\* nothing else; handling a frame whose type is none of dm, group_message
\* and ping writes nothing, calls no callback and sends nothing; neither
\* changes the state of the rate limiter.
C28_PingAndUnknown ==
  [][/\ ev'.type = "ping" =>
          ev'.pong = 1 /\ Dropped(ev') /\ UNCHANGED <<rate_limits, admitted, rl_call>>
     /\ ev'.type \in {"feed_post", "other", "untyped"} =>
          ev'.pong = 0 /\ Dropped(ev') /\ UNCHANGED <<rate_limits, admitted, rl_call>>]_vars
\* a ping was answered after a DM had been admitted
C28_Witness ==
  /\ ev.n = 2 /\ ev.type = "ping" /\ ev.pong = 1 /\ ~ev.raised
  /\ rl_call.n = 1 /\ rl_call.res

\* C29: when the discovery request of /groups or /knock, or the application
\* of /knock, fails (an error status, an exception such as a timeout, a
\* refused application), the command does not raise and one text that
\* reports the failure is sent back to where the command came from.
C29_FailureAnswered ==
  (ev.found \in {"status", "raise"} \/ ev.applied \in {"fail", "raise"}) =>
    /\ ~ev.raised
    /\ Len(ev.sent) = 1
    /\ \E kind \in ErrorTexts : Replied(kind)
\* the operator's /knock in a group found a group, the application was
\* refused, and the failure was reported to the group
C29_Witness ==
  /\ ev.kind = "group" /\ ev.sender = cfg.operator
  /\ ev.found = "available" /\ ev.applied = "fail" /\ ev.apply = 1
  /\ Replied("apply_failed")

\* C30: handling a dm or group_message frame whose sender is the bot itself
\* calls no callback, runs no command, sends nothing, and neither asks nor
\* changes the rate limiter.
C30_OwnFramesDropped ==
  [][(ev'.type \in {"dm", "group_message"} /\ ev'.sender = BotId) =>
       Dropped(ev') /\ UNCHANGED <<rate_limits, admitted, rl_call>>]_vars
\* the bot's own group message was dropped after a DM of the operator had
\* been admitted
C30_Witness ==
  /\ ev.n = 2 /\ ev.kind = "group" /\ ev.sender = BotId /\ Dropped(ev)
  /\ rl_call = [n |-> 1, user |-> 1, res |-> TRUE]

\* ------------------------------------------ claims, MsgSpec (rate limiter)
\* handling a frame recorded as e called no callback, ran no command, sent
\* nothing and issued no request
Inert(e) ==
  /\ e.msg_cb = << >> /\ e.clear_cb = << >> /\ e.sent = << >>
  /\ e.discover = 0 /\ e.apply = 0 /\ ~e.raised /\ e.text = << >>

\* C31: a frame the rate limiter rejects runs no command, calls no callback
\* and sends nothing, and adds no admission; a frame whose text is routed
\* has asked the limiter once and added exactly one admission, of its
\* sender; a frame dropped before (DMs or groups disabled, the bot's own,
\* group message without the required mention) does not ask the limiter.
C31_LimiterGatesRouting ==
  [][/\ ev'.rl = "denied" =>
          /\ Inert(ev')
          /\ rl_call' = [n |-> rl_call.n + 1, user |-> ev'.sender, res |-> FALSE]
          /\ admitted' = admitted
     /\ ev'.rl = "admitted" =>
          /\ rl_call' = [n |-> rl_call.n + 1, user |-> ev'.sender, res |-> TRUE]
          /\ admitted' = [admitted EXCEPT ![ev'.sender] = Append(@, now)]
     /\ ev'.rl = "skipped" =>
          /\ Inert(ev')
          /\ UNCHANGED <<rate_limits, admitted, rl_call>>]_vars
\* the second DM of a sender within the window was rejected and dropped
C31_Witness ==
  /\ ev.n = 2 /\ ev.kind = "dm" /\ ev.rl = "denied" /\ Inert(ev)
  /\ rl_call.n = 2 /\ ~rl_call.res
  /\ Len(admitted[ev.sender]) = 1

\* ----------------------------------------------- claims, Spec (continued)
\* a connect() call reads or writes its WebSocket: the auth frame and its
\* reply, the subscription requests and their replies
ChannelIo(c) == conn[c].pc \in {"ws_ok", "auth_recv", "auth_ok", "sub_recv"}

\* C32: while a connect() call writes to or reads from its WebSocket (auth
\* frame and reply, subscription requests and replies) no listen task is
\* live, neither waiting in receive() nor handling a frame (where the pongs
\* are written).
C32_SingleOwner ==
  \A c \in Callers : ChannelIo(c) => LiveListen = {}
\* a connect() called while a listen task was live waits for a subscription
\* reply, the earlier task done
C32_Witness ==
  \E c \in Callers :
    /\ conn[c].pc = "sub_recv"
    /\ \E t \in WsIds : ltask[t].pc = "done"
    /\ LiveListen = {}

\* ------------------------------------------ claims, PipeSpec (continued)
\* the assistant messages stored, all channels together
AssistantRows ==
  {<<u, k>> \in Users \X (1..(2 * PipeFrames)) :
     k \in DOMAIN hist[u] /\ hist[u][k].role = "assistant"}

\* C33: a failing completion makes _handle_message return the apology, with
\* no message stored and the counters as they were; a completion that
\* returns is followed by the storing of exactly one assistant message, the
\* reply, and one increment of messages_processed; so the counter equals the
\* number of assistant messages stored.
C33_ApologyOnFailure ==
  [][/\ (pipe.pc = "context" /\ pipe'.pc # "chatted") =>
          /\ pipe'.pc = "returned" /\ pipe'.reply = Apology
          /\ UNCHANGED <<hist, stats>>
     /\ (pipe.pc = "chatted" /\ pipe'.from = "completion") =>
          /\ pipe'.pc = "returned" /\ pipe'.reply = pipe.reply
          /\ hist' = [hist EXCEPT ![pipe.sender] =
                        Append(@, [role |-> "assistant", text |-> pipe.reply])]
          /\ stats' = [processed |-> stats.processed + 1, last_at |-> pipe.n]
     /\ stats'.processed = Cardinality(AssistantRows)']_vars
\* the completion failed for the second DM, after a first one was answered:
\* the apology is the response and the counters are those of the first
C33_Witness ==
  /\ pipe.n = 2 /\ pipe.pc = "returned" /\ pipe.from = "apology" /\ pipe.reply = Apology
  /\ At("chat") # {} /\ At("add_assistant") = {}
  /\ stats = [processed |-> 1, last_at |-> 1]
  /\ Cardinality(AssistantRows) = 1

\* ------------------------------------------------------- claims, ChatSpec
Retried == {"429", "5xx", "transport"}
ChatOver == chat.pc \in {"returned", "raised"}

\* C34: a call of chat makes at most retry_attempts requests; it returns
\* exactly when a request is answered 200, and makes no request after that;
\* every request but the last was answered 429, >= 500 or by a transport
\* error; another error status or exception ends the call by a raise; and a
\* call that ends without a 200 raises, after retry_attempts requests when
\* all were of the retried kinds.
C34_BoundedRetries ==
  /\ Len(chat.log) <= chat.n
  /\ \A i \in 1..(Len(chat.log) - 1) : chat.log[i] \in Retried
  /\ chat.pc = "returned" <=> (chat.log # << >> /\ chat.log[Len(chat.log)] = "200")
  /\ (chat.log # << >> /\ chat.log[Len(chat.log)] \in {"4xx", "other"}) => chat.pc = "raised"
  /\ (chat.pc = "raised" /\ \A i \in DOMAIN chat.log : chat.log[i] \in Retried) =>
       Len(chat.log) = chat.n
\* with retry_attempts 3 the call raised after a 429, a 500 and a transport
\* error
C34_Witness ==
  /\ chat.n = RetryAttempts /\ chat.pc = "raised"
  /\ chat.log = <<"429", "5xx", "transport">>

\* -------------------------------------------------------- claims, EngSpec
\* the handler of platform p is Disconnected
Disconnected(p) == ~plat[p].connected /\ ~plat[p].listen

\* C35: a connect() that raises leaves the handler Disconnected; the task
\* of the platform has slept the delays 5, 10, 20, ... capped at 120, one
\* after each failure; a task that wakes tries again exactly when the
\* engine's running flag is set and ends otherwise; and the task of a
\* platform can always take its next step, whatever the tasks of the other
\* platforms are doing.
C35_RetryPerPlatform ==
  [][\A p \in Plats :
       /\ (plat[p].pc \in {"get", "ws", "auth"} /\ plat'[p].pc = "sleep") =>
            /\ Disconnected(p)' /\ Disconnected(p)
            /\ plat'[p].slept = Append(plat[p].slept, plat[p].delay)
       /\ \A i \in DOMAIN plat[p].slept :
            plat[p].slept[i] = Min(BaseDelay * 2 ^ (i - 1), MaxDelay)
       /\ (plat[p].pc = "sleep" /\ plat'[p].pc # "sleep") =>
            plat'[p].pc = IF eng.running THEN "get" ELSE "done"
       /\ (~eng.running /\ plat[p].pc \in {"created", "sleep", "done"}) =>
            plat'[p].pc \in {plat[p].pc, "done"}
       /\ plat[p].pc = "created" => ENABLED PlatBegin(p)
       /\ plat[p].pc = "sleep" => ENABLED PlatWake(p)
       /\ (eng.running /\ plat[p].pc \in {"get", "ws", "auth"}) => ENABLED ConnectStep(p)]_vars
\* the first platform has failed six times and slept the cap while the
\* second connected at its first attempt
C35_Witness ==
  /\ plat[1].pc = "sleep" /\ plat[1].slept = <<5, 10, 20, 40, 80, 120>>
  /\ Disconnected(1) /\ eng.running
  /\ plat[2].pc = "done" /\ plat[2].connected /\ plat[2].attempt = 1

\* C39: stop() has called disconnect() on every handler when it closes the
\* completion client and the store, whatever disconnect() raised; and once
\* stop() has returned no handler reports is_connected.
C39_AllDisconnected ==
  /\ eng.stop \in {"closing", "returned"} => eng.called = Plats
  /\ eng.stop = "returned" => \A p \in Plats : ~plat[p].connected
\* stop() has returned, disconnect() was called on every handler, and the
\* handler whose connect() was in flight reports is_connected, its listen
\* task running
C39_ConnectedAfterStop ==
  /\ eng.stop = "returned" /\ eng.called = Plats /\ ~eng.running
  /\ \E p \in Plats : plat[p].connected /\ plat[p].listen /\ plat[p].pc = "done"
  /\ \E p \in Plats : plat[p].pc = "done" /\ ~plat[p].connected /\ plat[p].attempt > 0

\* ------------------------------------------------------ claims, StoreSpec
\* C38: the table holds at most one row per channel, and two calls for the
\* same channel that have returned hold the same conversation id.
C38_OneConversation ==
  /\ \A i, j \in DOMAIN convs : convs[i].channel = convs[j].channel => i = j
  /\ \A t, u \in Tasks :
       (goc[t].pc = "returned" /\ goc[u].pc = "returned" /\ goc[t].channel = goc[u].channel)
         => goc[t].id = goc[u].id
\* two calls for one channel have both returned, each with the id of the
\* row it inserted; the table holds both rows
C38_TwoConversations ==
  /\ goc[1].pc = "returned" /\ goc[2].pc = "returned"
  /\ goc[1].channel = goc[2].channel /\ goc[1].id # goc[2].id
  /\ \E i, j \in DOMAIN convs :
       /\ i # j
       /\ convs[i] = [id |-> goc[1].id, channel |-> goc[1].channel]
       /\ convs[j] = [id |-> goc[2].id, channel |-> goc[2].channel]

\* ----------------------------------------------- claims, Spec (continued)
\* no connect() call is executing
NoConnect == \A c \in Callers : conn[c].pc = "none"
\* a task that will call connect() exists: a scheduled _reconnect, one in its
\* backoff loop, or any other caller that has not given up
Recovering == \E c \in Callers : caller[c].pc \in {"start", "sleep", "connect"}

\* C36: whenever is_connected is true and no connect() call is executing, a
\* listen task is live or a reconnect is scheduled or under way.
C36_NeverStranded == (is_connected /\ NoConnect) => (LiveListen # {} \/ Recovering)
\* is_connected is true, no connect() is executing, every listen task has
\* ended, no task will call connect(), and the handler still means to run
C36_Stranded ==
  /\ is_connected /\ NoConnect /\ running /\ engine_running
  /\ LiveListen = {} /\ ~Recovering
  /\ after_disc = "no"

\* ------------------------------------------------------- claims, LoopSpec
\* C37: the listen loop reads a frame only when no handler is running, so
\* at most one handler runs at a time; the replies and pongs are written in
\* the order of the frames they answer; and a reply or pong is written only
\* when every frame that arrived before its frame has been read and its
\* handler has finished.
C37_OneFrameAtATime ==
  [][/\ lsn'.got # lsn.got => lsn.hs = {}
     /\ Cardinality(lsn'.hs) <= 1
     /\ \A i, j \in DOMAIN lsn'.out : i < j => lsn'.out[i].n < lsn'.out[j].n
     /\ Len(lsn'.out) > Len(lsn.out) =>
          /\ lsn.hs = {[n |-> lsn.got, type |-> lsn'.out[Len(lsn'.out)].type,
                        step |-> IF lsn'.out[Len(lsn'.out)].type = "ping" THEN "pong" ELSE "send"]}
          /\ lsn'.out[Len(lsn'.out)].n = lsn.got
          /\ \A k \in DOMAIN lsn.queue : lsn.queue[k].n > lsn.got]_vars
\* a ping arrived while the handler of a dm was running; the reply to the
\* dm was written first, the pong after it
C37_Witness ==
  /\ lsn.out = <<[n |-> 1, type |-> "dm"], [n |-> 2, type |-> "ping"]>>
  /\ 2 \in lsn.held

\* -------------------------------------------------------- claims, CutSpec
\* C40: every iteration of the splitting loop that goes round again leaves
\* a remaining text shorter than before, so the loop has gone round at most
\* once per character of the text; the call returns, and returns the
\* chunks of _chunk_message.
C40_LoopTerminates ==
  /\ [][/\ (cut.pc = "loop" /\ cut'.pc = "loop" /\ cut' # cut) =>
             /\ Len(cut'.text) < Len(cut.text)
             /\ cut'.n = cut.n + 1
        /\ cut'.n <= Len(ch_text)
        /\ cut'.pc = "returned" => cut'.chunks = chunk_message(ch_text, ch_limit)]_vars
  /\ <>(cut.pc = "returned")
\* the call has returned for a text that begins with a newline and is longer
\* than the limit: the first iteration split at position 0 and the loop
\* went round again
C40_Witness ==
  /\ cut.pc = "returned" /\ cut.n >= 2
  /\ Len(ch_text) > ch_limit /\ ch_text[1] = "\n"
  /\ cut.chunks[1] = << >>

====
